---- MODULE Spec2Model ----
(***************************************************************************)
(* The matching core of the exchange backend: the order book Manager and   *)
(* the per-symbol OrderBook (package orderbook), as a state machine.       *)
(*                                                                         *)
(* Quantities are counted in lots of 0.5 (so 1.5 is 3 lots); prices are    *)
(* whole numbers.  The code's float64 arithmetic on these values (min,     *)
(* subtraction of the smaller from the larger, comparison with 0, sums of  *)
(* a few small dyadic values) is exact, so integers model it faithfully.   *)
(*                                                                         *)
(* Spec runs the Manager's calls one at a time; SpecExample does so with   *)
(* the orders of the spec's worked example; SpecConc runs the calls of one *)
(* OrderBook from several goroutines, step by step, under its RWMutex.     *)
(* SpecReg runs Manager.GetOrCreateBook from several goroutines under the  *)
(* Manager's RWMutex; SpecLedger runs LockFunds and UnlockFunds on the     *)
(* balances table; SpecTx runs two order-creating transactions against the *)
(* same balance row; SpecSys runs the HTTP handlers CreateOrder and        *)
(* CancelOrder over the database, the Manager and the settlement goroutine.*)
(* SpecFill runs the ledger functions, UpdateBalancesForFill included, as a *)
(* caller with a transaction uses them; SpecBal runs GetOrCreateBalance and *)
(* GetOrCreateBalanceInTx from several requests at once.                   *)
(* SpecMulti runs the Manager's calls over two symbols; SpecReq runs the   *)
(* two handlers from two requests at a time, statement by statement, with  *)
(* the database's transactions and row locks; SpecMgr runs the Manager's   *)
(* calls from two goroutines under both mutexes, with fairness; SpecHub    *)
(* runs the WebSocket hub with its clients' pumps.                         *)
(* Amounts in the ledger are whole multiples of the column's resolution.   *)
(*                                                                         *)
(* An order object (a models.Order) lives in `heap`, keyed by its ID: the   *)
(* book never holds two objects with the same ID (HeapModelSound below),   *)
(* so the ID stands for the pointer.  Bids/Asks are sequences of such      *)
(* pointers and Orders is the key set of the id index map.                 *)
(***************************************************************************)
EXTENDS Integers, Sequences, FiniteSets, TLC

\* ------------------------------------------------------------------ bounds
MaxOrders == 3
MaxQty == 2
PriceLevels == 2
NumThreads == 2
MaxConcOrders == 2

OrderIds == 1..MaxOrders
Prices == {98 + k : k \in 1..PriceLevels}
Qtys == 1..MaxQty
Sides == {"buy", "sell"}
Types == {"limit", "market"}
\* symbols as callers may write them; the registry upper-cases them
SymbolInputs == {"BTC-USD", "btc-usd"}
None == "none"
NoOrder == [ID |-> 0]

\* The orders a caller may hand to the Manager under a given id (quantity > 0
\* and price > 0, as the request handler validates them): every limit order
\* for the book's symbol, and one order for each other spelling/type.
LimitInputs(id) ==
    [ID : {id}, Symbol : {"BTC-USD"}, Type : {"limit"}, Side : Sides,
     Price : Prices, Quantity : Qtys]

OddInputs(id) ==
    {o \in [ID : {id}, Symbol : SymbolInputs, Type : Types, Side : {"sell"},
             Price : {99}, Quantity : {1}] :
        o.Symbol # "BTC-USD" \/ o.Type # "limit"}

OrderInputs(id) == LimitInputs(id) \cup OddInputs(id)

VARIABLES
    books,      \* Manager.books: canonical symbol -> OrderBook {symbol, Bids, Asks, Orders}
    heap,       \* the order objects the books point to, by ID (NoOrder: none)
    issued,     \* how many order ids the order store has handed out (1..issued)
    last,       \* history: the last completed call and what it returned
    mu,         \* OrderBook.mu of the BTC-USD book: the writer (0: none) and the readers
    pc,         \* per goroutine: where it is in its call
    frame,      \* per goroutine: the locals of its call
    committed,  \* history: the book and heap when the last mutating call returned
    reg,        \* the Manager seen by concurrent GetOrCreateBook calls (registry section)
    db,         \* the committed database: balances by (user, asset), orders by id
    tx,         \* open database transactions: row locks and each one's uncommitted writes
    settle,     \* the processTrades goroutines and what they have processed
    resp        \* history: the last completed request or ledger call and its outcome

seqVars == <<books, heap, issued, last>>
concVars == <<mu, pc, frame, committed>>
sysVars == <<reg, db, tx, settle, resp>>
vars == <<books, heap, issued, last, mu, pc, frame, committed, reg, db, tx, settle, resp>>

\* ------------------------------------------------------------------ helpers
\* (mutant) the match takes the incoming order's whole remainder
MinFirst(a, b) == a

Min(a, b) == IF a <= b THEN a ELSE b

Range(s) == {s[k] : k \in 1..Len(s)}

\* append(s[:i], s[i+1:]...) with 0-based i
RemoveAt(s, i) == SubSeq(s, 1, i) \o SubSeq(s, i + 2, Len(s))

\* append(s, nil); copy(s[i+1:], s[i:]); s[i] = x   with 0-based i
InsertAt(s, i, x) == SubSeq(s, 1, i) \o <<x>> \o SubSeq(s, i + 1, Len(s))

\* strings.ToUpper on the symbols callers use
ToUpper(s) == IF s = "btc-usd" THEN "BTC-USD" ELSE s

\* sort.Search(n, f): binary search for the smallest i in [0, n] with f[i] true;
\* f is the predicate tabulated on 0..n-1
RECURSIVE SearchLoop(_, _, _)
SearchLoop(f, i, j) ==
    IF i < j
    THEN LET h == (i + j) \div 2
         IN  IF ~f[h] THEN SearchLoop(f, h + 1, j) ELSE SearchLoop(f, i, h)
    ELSE i

SortSearch(n, f) == SearchLoop(f, 0, n)

\* ------------------------------------------------------------------ OrderBook
NewOrderBook(symbol) ==
    [symbol |-> symbol, Bids |-> <<>>, Asks |-> <<>>, Orders |-> {}]

\* (mutant) the bid is appended instead of inserted at its price
BidIndexAppend(b, h, id) == Len(b.Bids)

\* the insertion index addBid computes
BidIndex(b, h, id) ==
    SortSearch(Len(b.Bids),
               [j \in 0..(Len(b.Bids) - 1) |-> h[b.Bids[j + 1]].Price <= h[id].Price])

\* (mutant) the ask is appended instead of inserted at its price
AskIndexAppend(b, h, id) == Len(b.Asks)

\* the insertion index addAsk computes
AskIndex(b, h, id) ==
    SortSearch(Len(b.Asks),
               [j \in 0..(Len(b.Asks) - 1) |-> h[b.Asks[j + 1]].Price >= h[id].Price])

addBid(b, h, id) == [b EXCEPT !.Bids = InsertAt(b.Bids, BidIndex(b, h, id), id)]

addAsk(b, h, id) == [b EXCEPT !.Asks = InsertAt(b.Asks, AskIndex(b, h, id), id)]

\* (mutant) the trade is struck at the incoming order's limit
TradePriceOfTaker(incoming, resting) == incoming.Price

\* the price a trade is struck at
TradePrice(incoming, resting) == resting.Price

Trade(b, h, inc, maker, qty) ==
    [TakerOrderID |-> inc, MakerOrderID |-> maker, Symbol |-> b.symbol,
     Price |-> TradePrice(h[inc], h[maker]), Quantity |-> qty]

\* A match frame: the book, the heap, the loop index i (0-based), the trades
\* so far and whether the loop has hit its break.
MatchStart(b, h) == [b |-> b, h |-> h, i |-> 0, trades |-> <<>>, brk |-> FALSE]

\* (mutant) the loop stops after its first trade
MatchGuardOnce(m, inc) ==
    /\ ~m.brk
    /\ m.trades = <<>>
    /\ m.i < Len(IF m.h[inc].Side = "buy" THEN m.b.Asks ELSE m.b.Bids)
    /\ m.h[inc].Quantity > 0

\* the loop condition of matchOrder (and not yet broken out)
MatchGuard(m, inc) ==
    /\ ~m.brk
    /\ m.i < Len(IF m.h[inc].Side = "buy" THEN m.b.Asks ELSE m.b.Bids)
    /\ m.h[inc].Quantity > 0

\* (mutant) the buy loop that sends a partially filled ask to the back of Asks
MatchBuyIterRequeue(m, inc) ==
    LET ask == m.b.Asks[m.i + 1]
    IN  IF m.h[inc].Price >= m.h[ask].Price
        THEN LET q  == Min(m.h[inc].Quantity, m.h[ask].Quantity)
                 h1 == [m.h EXCEPT ![inc].Quantity = @ - q, ![ask].Quantity = @ - q]
                 t  == Append(m.trades, Trade(m.b, m.h, inc, ask, q))
             IN  IF h1[ask].Quantity = 0
                 THEN [m EXCEPT !.h = h1, !.trades = t,
                                !.b.Orders = @ \ {ask},
                                !.b.Asks = RemoveAt(@, m.i)]
                 ELSE [m EXCEPT !.h = h1, !.trades = t,
                                !.b.Asks = Append(RemoveAt(@, m.i), ask),
                                !.i = Len(m.b.Asks)]
        ELSE [m EXCEPT !.brk = TRUE]

\* one iteration of the buy loop: against Asks[i]
MatchBuyIter(m, inc) ==
    LET ask == m.b.Asks[m.i + 1]
    IN  IF m.h[inc].Price >= m.h[ask].Price
        THEN LET q  == Min(m.h[inc].Quantity, m.h[ask].Quantity)
                 h1 == [m.h EXCEPT ![inc].Quantity = @ - q, ![ask].Quantity = @ - q]
                 t  == Append(m.trades, Trade(m.b, m.h, inc, ask, q))
             IN  IF h1[ask].Quantity = 0
                 THEN [m EXCEPT !.h = h1, !.trades = t,
                                !.b.Orders = @ \ {ask},
                                !.b.Asks = RemoveAt(@, m.i)]
                 ELSE [m EXCEPT !.h = h1, !.trades = t, !.i = @ + 1]
        ELSE [m EXCEPT !.brk = TRUE]

\* one iteration of the sell loop: against Bids[i]
MatchSellIter(m, inc) ==
    LET bid == m.b.Bids[m.i + 1]
    IN  IF m.h[inc].Price <= m.h[bid].Price
        THEN LET q  == Min(m.h[inc].Quantity, m.h[bid].Quantity)
                 h1 == [m.h EXCEPT ![inc].Quantity = @ - q, ![bid].Quantity = @ - q]
                 t  == Append(m.trades, Trade(m.b, m.h, inc, bid, q))
             IN  IF h1[bid].Quantity = 0
                 THEN [m EXCEPT !.h = h1, !.trades = t,
                                !.b.Orders = @ \ {bid},
                                !.b.Bids = RemoveAt(@, m.i)]
                 ELSE [m EXCEPT !.h = h1, !.trades = t, !.i = @ + 1]
        ELSE [m EXCEPT !.brk = TRUE]

MatchIter(m, inc) ==
    IF m.h[inc].Side = "buy" THEN MatchBuyIter(m, inc) ELSE MatchSellIter(m, inc)

RECURSIVE MatchLoop(_, _)
MatchLoop(m, inc) ==
    IF MatchGuard(m, inc) THEN MatchLoop(MatchIter(m, inc), inc) ELSE m

\* matchOrder(incomingOrder): the frame after the loop
matchOrder(b, h, inc) == MatchLoop(MatchStart(b, h), inc)

\* (mutant) the validation without the duplicate-id check
AddOrderCheckNoDup(b, order) ==
    IF order.Symbol # b.symbol THEN "symbol_mismatch"
    ELSE IF order.Type # "limit" THEN "not_limit"
    ELSE None

\* (mutant) the validation without the order-type check
AddOrderCheckAnyType(b, order) ==
    IF order.Symbol # b.symbol THEN "symbol_mismatch"
    ELSE IF order.ID \in b.Orders THEN "already_exists"
    ELSE None

\* the validation at the head of AddOrder: the error, or None
AddOrderCheck(b, order) ==
    IF order.Symbol # b.symbol THEN "symbol_mismatch"
    ELSE IF order.Type # "limit" THEN "not_limit"
    ELSE IF order.ID \in b.Orders THEN "already_exists"
    ELSE None

\* ob.Orders[order.ID] = order
IndexOrder(b, order) == [b EXCEPT !.Orders = @ \cup {order.ID}]

\* the object the caller passed, as the book holds it
Object(order) ==
    [ID |-> order.ID, Side |-> order.Side, Price |-> order.Price,
     Quantity |-> order.Quantity]

\* (mutant) the incoming order comes to rest whatever is left of it
RestAlways(b, h, id) ==
    IF h[id].Side = "buy" THEN addBid(b, h, id) ELSE addAsk(b, h, id)

\* the tail of AddOrder: the remainder comes to rest
RestRemainder(b, h, id) ==
    IF h[id].Quantity > 0
    THEN IF h[id].Side = "buy" THEN addBid(b, h, id) ELSE addAsk(b, h, id)
    ELSE b

\* OrderBook.AddOrder: [b, h, trades, err]
AddOrder(b, h, order) ==
    LET err == AddOrderCheck(b, order)
    IN  IF err # None
        THEN [b |-> b, h |-> h, trades |-> <<>>, err |-> err]
        ELSE LET m == matchOrder(IndexOrder(b, order),
                                 [h EXCEPT ![order.ID] = Object(order)], order.ID)
             IN  [b |-> RestRemainder(m.b, m.h, order.ID), h |-> m.h,
                  trades |-> m.trades, err |-> None]

\* the first index (0-based) of id in a side, or Len when absent
RECURSIVE IndexOf(_, _, _)
IndexOf(s, id, i) ==
    IF i >= Len(s) THEN Len(s)
    ELSE IF s[i + 1] = id THEN i ELSE IndexOf(s, id, i + 1)

\* (mutant) the scan removes the head of the side, not the order found
RemoveHead(s, id) ==
    LET i == IndexOf(s, id, 0) IN IF i < Len(s) THEN Tail(s) ELSE s

\* the scan-and-remove loops of CancelOrder
RemoveFromSide(s, id) ==
    LET i == IndexOf(s, id, 0) IN IF i < Len(s) THEN RemoveAt(s, i) ELSE s

\* the lookup CancelOrder starts with
InIndex(b, id) == id \in b.Orders

\* (mutant) the unknown id is reported as a success
CancelMissSilent(b) == [b |-> b, removed |-> NoOrder, err |-> None]

\* CancelOrder's return for an id the index does not hold
CancelMiss(b) == [b |-> b, removed |-> NoOrder, err |-> "not_found"]

\* OrderBook.CancelOrder: [b, removed, err]
CancelOrder(b, h, id) ==
    IF ~InIndex(b, id)
    THEN CancelMiss(b)
    ELSE LET order == h[id]
             b1    == [b EXCEPT !.Orders = @ \ {id}]
         IN  [b |-> IF order.Side = "buy"
                    THEN [b1 EXCEPT !.Bids = RemoveFromSide(@, id)]
                    ELSE [b1 EXCEPT !.Asks = RemoveFromSide(@, id)],
              removed |-> order, err |-> None]

\* (mutant) the level keeps the last order's quantity instead of the sum
RECURSIVE AggregateLast(_, _, _, _)
AggregateLast(side, h, k, levelMap) ==
    IF k > Len(side) THEN levelMap
    ELSE LET o == h[side[k]]
         IN  AggregateLast(side, h, k + 1,
                           IF o.Price \in DOMAIN levelMap
                           THEN [levelMap EXCEPT ![o.Price] = o.Quantity]
                           ELSE levelMap @@ (o.Price :> o.Quantity))

\* the levelMap loop of GetDepth: price -> summed quantity, over side[k..]
RECURSIVE Aggregate(_, _, _, _)
Aggregate(side, h, k, levelMap) ==
    IF k > Len(side) THEN levelMap
    ELSE LET o == h[side[k]]
         IN  Aggregate(side, h, k + 1,
                       IF o.Price \in DOMAIN levelMap
                       THEN [levelMap EXCEPT ![o.Price] = @ + o.Quantity]
                       ELSE levelMap @@ (o.Price :> o.Quantity))

EmptyMap == [p \in {} |-> 0]

\* the comparators handed to sort.Slice
BidLess(p, q) == p > q
AskLess(p, q) == p < q

\* sort.Slice on distinct keys: the keys in the comparator's order
RECURSIVE SortedKeys(_, _)
SortedKeys(S, desc) ==
    IF S = {} THEN <<>>
    ELSE LET first == CHOOSE p \in S :
                        \A q \in S \ {p} : IF desc THEN BidLess(p, q) ELSE AskLess(p, q)
         IN  <<first>> \o SortedKeys(S \ {first}, desc)

\* one side of the depth: a BookLevel per key of the level map
Levels(side, h, desc) ==
    LET levelMap == Aggregate(side, h, 1, EmptyMap)
        prices   == SortedKeys(DOMAIN levelMap, desc)
    IN  [k \in 1..Len(prices) |-> [Price |-> prices[k], Quantity |-> levelMap[prices[k]]]]

\* OrderBook.GetDepth
GetDepth(b, h) ==
    [Symbol |-> b.symbol, Bids |-> Levels(b.Bids, h, TRUE), Asks |-> Levels(b.Asks, h, FALSE)]

\* (mutant) creating a book makes the map anew, dropping the other books
GetOrCreateBookReset(bks, symbol) ==
    LET s == ToUpper(symbol)
    IN  IF s \in DOMAIN bks THEN bks ELSE (s :> NewOrderBook(s))

\* ------------------------------------------------------------------ Manager
\* Manager.GetOrCreateBook: the books map afterwards (the book is books[ToUpper(symbol)])
GetOrCreateBook(bks, symbol) ==
    LET s == ToUpper(symbol)
    IN  IF s \in DOMAIN bks THEN bks ELSE bks @@ (s :> NewOrderBook(s))

\* the ids some book still points to
Referenced(bks) ==
    UNION {bks[s].Orders \cup Range(bks[s].Bids) \cup Range(bks[s].Asks) : s \in DOMAIN bks}

\* unreferenced order objects are garbage
Collect(bks, h) == [id \in OrderIds |-> IF id \in Referenced(bks) THEN h[id] ELSE NoOrder]

\* the ids resting on some side of some book
Resting(bks) == UNION {Range(bks[s].Bids) \cup Range(bks[s].Asks) : s \in DOMAIN bks}

\* the ids in some book's index
Indexed(bks) == UNION {bks[s].Orders : s \in DOMAIN bks}

NoCall == [op |-> "none", arg |-> NoOrder, err |-> None, trades |-> <<>>,
           removed |-> NoOrder, depth |-> <<>>]

Threads == 1..NumThreads

NoFrame == [order |-> NoOrder, id |-> 0, i |-> 0, trades |-> <<>>, brk |-> FALSE,
            depth |-> <<>>, seen |-> {}]

\* an empty database, no open transaction, no settlement goroutine, no request
NoRows == [k \in {} |-> 0]
NoDb == [balances |-> NoRows, orders |-> NoRows]
NoTx == [holder |-> NoRows, frame |-> <<>>, won |-> <<>>, initial |-> NoRows, locks |-> <<>>]
NoSettle == [jobs |-> {}, done |-> <<>>, emitted |-> {}]
NoResp == [op |-> "none"]

\* no registry call has been made
NoReg == [mu |-> [writer |-> 0, readers |-> {}], books |-> <<>>, made |-> 0,
          frame |-> <<>>, given |-> {}]

\* the parts of the system a specification leaves aside stay as constructed
SysIdle ==
    /\ reg = NoReg
    /\ db = NoDb
    /\ tx = NoTx
    /\ settle = NoSettle
    /\ resp = NoResp

\* no goroutine is inside a book call
Quiet ==
    /\ mu = [writer |-> 0, readers |-> {}]
    /\ pc = [t \in Threads |-> "idle"]
    /\ frame = [t \in Threads |-> NoFrame]

Init ==
    /\ books = [s \in {} |-> NewOrderBook(s)]
    /\ heap = [id \in OrderIds |-> NoOrder]
    /\ issued = 0
    /\ last = NoCall
    /\ Quiet
    /\ committed = <<>>
    /\ SysIdle

\* Manager.SubmitOrder(order): resolve the book, add, hand the trades to the
\* settlement placeholder (processTrades only logs them)
Submit(order) ==
    LET s   == ToUpper(order.Symbol)
        bks == GetOrCreateBook(books, order.Symbol)
        r   == AddOrder(bks[s], heap, order)
        nb  == [bks EXCEPT ![s] = r.b]
    IN  /\ books' = nb
        /\ heap' = Collect(nb, r.h)
        /\ last' = [NoCall EXCEPT !.op = "add", !.arg = order, !.err = r.err,
                                  !.trades = r.trades]
        /\ UNCHANGED <<concVars, sysVars>>

\* a new order: the order store gave it the next id
SubmitOrder(order) ==
    /\ issued < MaxOrders
    /\ order.ID = issued + 1
    /\ issued' = issued + 1
    /\ Submit(order)

\* the same order object handed in again while the book still indexes it
ResubmitOrder(id) ==
    /\ id \in Indexed(books)
    /\ UNCHANGED issued
    /\ Submit([ID |-> id, Symbol |-> "BTC-USD", Type |-> "limit", Side |-> heap[id].Side,
               Price |-> heap[id].Price, Quantity |-> heap[id].Quantity])

\* Manager.CancelOrder(order): only order.Symbol and order.ID are read
ManagerCancelOrder(symbol, id) ==
    LET s   == ToUpper(symbol)
        bks == GetOrCreateBook(books, symbol)
        r   == CancelOrder(bks[s], heap, id)
        nb  == [bks EXCEPT ![s] = r.b]
    IN  /\ books' = nb
        /\ heap' = Collect(nb, heap)
        /\ last' = [NoCall EXCEPT !.op = "cancel", !.arg = [ID |-> id, Symbol |-> symbol],
                                  !.err = r.err, !.removed = r.removed]
        /\ UNCHANGED <<issued, concVars, sysVars>>

\* Manager.GetBookDepth(symbol)
GetBookDepth(symbol) ==
    LET s   == ToUpper(symbol)
        bks == GetOrCreateBook(books, symbol)
    IN  /\ books' = bks
        /\ last' = [NoCall EXCEPT !.op = "depth", !.arg = [ID |-> 0, Symbol |-> symbol],
                                  !.depth = GetDepth(bks[s], heap)]
        /\ UNCHANGED <<heap, issued, concVars, sysVars>>

\* the calls one at a time (each holds the book's lock from start to end);
\* cancels name a submitted order or the next, never-submitted id
Next ==
    \/ \E order \in OrderInputs(issued + 1) : SubmitOrder(order)
    \/ \E id \in OrderIds : ResubmitOrder(id)
    \/ \E id \in 1..(issued + 1) : ManagerCancelOrder("BTC-USD", id)
    \/ \E symbol \in SymbolInputs : GetBookDepth(symbol)

Spec == Init /\ [][Next]_vars

\* The same calls with the orders of the spec's worked example: prices 99 and
\* 100, quantities 1.0, 1.5 and 2.0 (2, 3 and 4 lots).
ExamplePrices == {99, 100}
ExampleQtys == {2, 3, 4}

ExampleInputs(id) ==
    [ID : {id}, Symbol : {"BTC-USD"}, Type : {"limit"}, Side : Sides,
     Price : ExamplePrices, Quantity : ExampleQtys]

NextExample ==
    \/ \E order \in ExampleInputs(issued + 1) : SubmitOrder(order)
    \/ \E id \in 1..(issued + 1) : ManagerCancelOrder("BTC-USD", id)
    \/ GetBookDepth("BTC-USD")

SpecExample == Init /\ [][NextExample]_vars

\* The same calls on two symbols, one Manager: limit orders at one price for
\* either symbol; a cancel or a depth query may name either symbol.
MultiSymbols == {"BTC-USD", "ETH-USD"}

MultiInputs(id) ==
    [ID : {id}, Symbol : MultiSymbols, Type : {"limit"}, Side : Sides,
     Price : {99}, Quantity : Qtys]

NextMulti ==
    \/ \E order \in MultiInputs(issued + 1) : SubmitOrder(order)
    \/ \E symbol \in MultiSymbols, id \in 1..issued : ManagerCancelOrder(symbol, id)
    \/ \E symbol \in MultiSymbols : GetBookDepth(symbol)

SpecMulti == Init /\ [][NextMulti]_vars

\* the heap may be keyed by ID: what rests on a side is in that book's index,
\* and no id is held by two books or twice by one
HeapModelSound ==
    /\ \A s \in DOMAIN books :
        /\ Range(books[s].Bids) \cup Range(books[s].Asks) \subseteq books[s].Orders
        /\ \A id \in books[s].Orders : heap[id] # NoOrder
    /\ \A s, t \in DOMAIN books : s # t => books[s].Orders \cap books[t].Orders = {}

\* ------------------------------------------------------------------ goroutines
\* AddOrder, CancelOrder and GetDepth of the BTC-USD book, called from several
\* goroutines and taken apart at the points where another goroutine could run:
\* the lock calls, each iteration of the match loop, each side GetDepth reads.
TheBook == "BTC-USD"
ConcPrices == {99, 100}
ConcQtys == {1, 2}

ConcInputs(id) ==
    [ID : {id}, Symbol : {TheBook}, Type : {"limit"}, Side : Sides,
     Price : ConcPrices, Quantity : ConcQtys]
    \cup {[ID |-> id, Symbol |-> TheBook, Type |-> "market", Side |-> "sell",
           Price |-> 99, Quantity |-> 1]}

\* (mutant) GetDepth reads without waiting for the writer
RLockNoWait(m) == TRUE

\* ob.mu.RLock() can be taken: no writer holds the lock
RLockFree(m) == m.writer = 0

\* (mutant) a mutating call enters without waiting for the lock
LockNoWait(m) == TRUE

\* ob.mu.Lock() can be taken: nobody holds the lock
LockFree(m) == m.writer = 0 /\ m.readers = {}

Snapshot(bks, h) == [b |-> bks[TheBook], h |-> h]

\* the deferred ob.mu.Unlock() of a mutating call that leaves book nb, heap nh
ReturnWrite(t, nb, nh) ==
    /\ books' = [books EXCEPT ![TheBook] = nb]
    /\ heap' = Collect([books EXCEPT ![TheBook] = nb], nh)
    /\ mu' = [mu EXCEPT !.writer = 0]
    /\ pc' = [pc EXCEPT ![t] = "idle"]
    /\ committed' = Snapshot(books', heap')
    /\ frame' = [u \in Threads |->
                    IF u = t THEN NoFrame
                    ELSE IF pc[u] \in {"depth_bids", "depth_asks", "depth_ret"}
                    THEN [frame[u] EXCEPT !.seen = @ \cup {committed'}]
                    ELSE frame[u]]

\* a goroutine calls AddOrder with a new order (the order store gave it the next id)
AddCall(t, order) ==
    /\ pc[t] = "idle"
    /\ issued < MaxConcOrders
    /\ order.ID = issued + 1
    /\ issued' = issued + 1
    /\ pc' = [pc EXCEPT ![t] = "add_lock"]
    /\ frame' = [frame EXCEPT ![t] = [NoFrame EXCEPT !.order = order]]
    /\ UNCHANGED <<books, heap, last, sysVars, mu, committed>>

\* AddOrder: ob.mu.Lock()
AddLock(t) ==
    /\ pc[t] = "add_lock"
    /\ LockFree(mu)
    /\ mu' = [mu EXCEPT !.writer = t]
    /\ pc' = [pc EXCEPT ![t] = "add_check"]
    /\ UNCHANGED <<books, heap, issued, last, sysVars, frame, committed>>

\* AddOrder: the validation, then the order enters the index
AddCheck(t) ==
    /\ pc[t] = "add_check"
    /\ LET order == frame[t].order
       IN  IF AddOrderCheck(books[TheBook], order) # None
           THEN ReturnWrite(t, books[TheBook], heap)
           ELSE /\ books' = [books EXCEPT ![TheBook] = IndexOrder(@, order)]
                /\ heap' = [heap EXCEPT ![order.ID] = Object(order)]
                /\ pc' = [pc EXCEPT ![t] = "add_match"]
                /\ UNCHANGED <<mu, frame, committed>>
    /\ UNCHANGED <<issued, last, sysVars>>

\* the match frame of goroutine t over the shared book
FrameOf(t) ==
    [b |-> books[TheBook], h |-> heap, i |-> frame[t].i, trades |-> frame[t].trades,
     brk |-> frame[t].brk]

\* AddOrder: one iteration of matchOrder's loop
AddMatch(t) ==
    /\ pc[t] = "add_match"
    /\ MatchGuard(FrameOf(t), frame[t].order.ID)
    /\ LET m == MatchIter(FrameOf(t), frame[t].order.ID)
       IN  /\ books' = [books EXCEPT ![TheBook] = m.b]
           /\ heap' = m.h
           /\ frame' = [frame EXCEPT ![t].i = m.i, ![t].trades = m.trades, ![t].brk = m.brk]
    /\ UNCHANGED <<issued, last, sysVars, mu, pc, committed>>

\* AddOrder: the loop is over; the remainder rests and the call returns
AddRest(t) ==
    /\ pc[t] = "add_match"
    /\ ~MatchGuard(FrameOf(t), frame[t].order.ID)
    /\ ReturnWrite(t, RestRemainder(books[TheBook], heap, frame[t].order.ID), heap)
    /\ UNCHANGED <<issued, last, sysVars>>

\* a goroutine calls CancelOrder(id) for an order that was submitted
CancelCall(t, id) ==
    /\ pc[t] = "idle"
    /\ id <= issued
    /\ pc' = [pc EXCEPT ![t] = "cancel_lock"]
    /\ frame' = [frame EXCEPT ![t] = [NoFrame EXCEPT !.id = id]]
    /\ UNCHANGED <<books, heap, issued, last, sysVars, mu, committed>>

\* CancelOrder: ob.mu.Lock()
CancelLock(t) ==
    /\ pc[t] = "cancel_lock"
    /\ LockFree(mu)
    /\ mu' = [mu EXCEPT !.writer = t]
    /\ pc' = [pc EXCEPT ![t] = "cancel"]
    /\ UNCHANGED <<books, heap, issued, last, sysVars, frame, committed>>

\* CancelOrder: the body under the lock, and the return
CancelBody(t) ==
    /\ pc[t] = "cancel"
    /\ ReturnWrite(t, CancelOrder(books[TheBook], heap, frame[t].id).b, heap)
    /\ UNCHANGED <<issued, last, sysVars>>

\* GetDepth: ob.mu.RLock() returns (a call that waits here has not acted yet)
DepthRLock(t) ==
    /\ pc[t] = "idle"
    /\ RLockFree(mu)
    /\ mu' = [mu EXCEPT !.readers = @ \cup {t}]
    /\ pc' = [pc EXCEPT ![t] = "depth_bids"]
    /\ frame' = [frame EXCEPT ![t] = [NoFrame EXCEPT !.seen = {committed}]]
    /\ UNCHANGED <<books, heap, issued, last, sysVars, committed>>

\* GetDepth: the bid levels
DepthBids(t) ==
    /\ pc[t] = "depth_bids"
    /\ frame' = [frame EXCEPT ![t].depth =
                    [Symbol |-> TheBook, Bids |-> Levels(books[TheBook].Bids, heap, TRUE)]]
    /\ pc' = [pc EXCEPT ![t] = "depth_asks"]
    /\ UNCHANGED <<books, heap, issued, last, sysVars, mu, committed>>

\* GetDepth: the ask levels
DepthAsks(t) ==
    /\ pc[t] = "depth_asks"
    /\ frame' = [frame EXCEPT ![t].depth =
                    [Symbol |-> TheBook, Bids |-> frame[t].depth.Bids,
                     Asks |-> Levels(books[TheBook].Asks, heap, FALSE)]]
    /\ pc' = [pc EXCEPT ![t] = "depth_ret"]
    /\ UNCHANGED <<books, heap, issued, last, sysVars, mu, committed>>

\* GetDepth: the deferred ob.mu.RUnlock() and the return
DepthReturn(t) ==
    /\ pc[t] = "depth_ret"
    /\ mu' = [mu EXCEPT !.readers = @ \ {t}]
    /\ pc' = [pc EXCEPT ![t] = "idle"]
    /\ frame' = [frame EXCEPT ![t] = NoFrame]
    /\ UNCHANGED <<books, heap, issued, last, sysVars, committed>>

\* the book exists (GetOrCreateBook has run) and nobody is inside a call
InitConc ==
    /\ books = (TheBook :> NewOrderBook(TheBook))
    /\ heap = [id \in OrderIds |-> NoOrder]
    /\ issued = 0
    /\ last = NoCall
    /\ Quiet
    /\ committed = Snapshot(books, heap)
    /\ SysIdle

NextConc ==
    \E t \in Threads :
        \/ \E order \in ConcInputs(issued + 1) : AddCall(t, order)
        \/ AddLock(t)
        \/ AddCheck(t)
        \/ AddMatch(t)
        \/ AddRest(t)
        \/ \E id \in OrderIds : CancelCall(t, id)
        \/ CancelLock(t)
        \/ CancelBody(t)
        \/ DepthRLock(t)
        \/ DepthBids(t)
        \/ DepthAsks(t)
        \/ DepthReturn(t)

SpecConc == InitConc /\ [][NextConc]_vars

\* the lock is held the way sync.RWMutex allows
LockSound ==
    /\ mu.writer # 0 => mu.readers = {}
    /\ \A t \in Threads :
        /\ (pc[t] \in {"add_check", "add_match", "cancel"}) <=> mu.writer = t
        /\ (pc[t] \in {"depth_bids", "depth_asks", "depth_ret"}) <=> t \in mu.readers

\* ------------------------------------------------------------------ registry
\* Manager.GetOrCreateBook called from several goroutines, taken apart at its
\* lock calls.  reg.books maps a canonical symbol to the OrderBook instance
\* stored for it (instances are numbered as NewOrderBook makes them), reg.made
\* counts the instances made, reg.given records every (symbol, instance) a
\* call has returned.
RegSymbols == {"BTC-USD", "btc-usd", "ETH-USD"}

RegIdle == [at |-> "idle", symbol |-> "", book |-> 0, exists |-> FALSE]

\* (mutant) the second lookup under the write lock is left out
RecheckSkipped(bks, symbol) == FALSE

\* book, exists = m.books[symbol] under the write lock
Recheck(bks, symbol) == symbol \in DOMAIN bks

\* return book: the call hands `book` to its caller
RegReturn(t, r, book) ==
    [r EXCEPT !.frame[t] = RegIdle,
              !.given = @ \cup {<<reg.frame[t].symbol, book>>}]

\* symbol = strings.ToUpper(symbol)
RegCall(t, symbol) ==
    /\ reg.frame[t].at = "idle"
    /\ reg' = [reg EXCEPT !.frame[t] = [RegIdle EXCEPT !.at = "rlock", !.symbol = ToUpper(symbol)]]
    /\ UNCHANGED <<seqVars, concVars, db, tx, settle, resp>>

\* m.mu.RLock()
RegRLock(t) ==
    /\ reg.frame[t].at = "rlock"
    /\ RLockFree(reg.mu)
    /\ reg' = [reg EXCEPT !.mu.readers = @ \cup {t}, !.frame[t].at = "read"]
    /\ UNCHANGED <<seqVars, concVars, db, tx, settle, resp>>

\* book, exists := m.books[symbol]
RegRead(t) ==
    /\ reg.frame[t].at = "read"
    /\ LET symbol == reg.frame[t].symbol
           exists == symbol \in DOMAIN reg.books
       IN  reg' = [reg EXCEPT !.frame[t].at = "runlock",
                              !.frame[t].exists = exists,
                              !.frame[t].book = IF exists THEN reg.books[symbol] ELSE 0]
    /\ UNCHANGED <<seqVars, concVars, db, tx, settle, resp>>

\* m.mu.RUnlock(); if exists { return book }
RegRUnlock(t) ==
    /\ reg.frame[t].at = "runlock"
    /\ LET r == [reg EXCEPT !.mu.readers = @ \ {t}]
       IN  reg' = IF reg.frame[t].exists
                  THEN RegReturn(t, r, reg.frame[t].book)
                  ELSE [r EXCEPT !.frame[t].at = "lock"]
    /\ UNCHANGED <<seqVars, concVars, db, tx, settle, resp>>

\* m.mu.Lock()
RegLock(t) ==
    /\ reg.frame[t].at = "lock"
    /\ LockFree(reg.mu)
    /\ reg' = [reg EXCEPT !.mu.writer = t, !.frame[t].at = "locked"]
    /\ UNCHANGED <<seqVars, concVars, db, tx, settle, resp>>

\* under the write lock: the second lookup, the creation, the deferred Unlock
RegCreate(t) ==
    /\ reg.frame[t].at = "locked"
    /\ LET symbol == reg.frame[t].symbol
           r      == [reg EXCEPT !.mu.writer = 0]
       IN  reg' = IF Recheck(reg.books, symbol)
                  THEN RegReturn(t, r, reg.books[symbol])
                  ELSE RegReturn(t, [r EXCEPT !.made = @ + 1,
                                              !.books = (symbol :> (reg.made + 1)) @@ @],
                                 reg.made + 1)
    /\ UNCHANGED <<seqVars, concVars, db, tx, settle, resp>>

\* InitManager: an empty map, no goroutine inside a call
InitReg ==
    /\ books = [s \in {} |-> NewOrderBook(s)]
    /\ heap = [id \in OrderIds |-> NoOrder]
    /\ issued = 0
    /\ last = NoCall
    /\ Quiet
    /\ committed = <<>>
    /\ reg = [NoReg EXCEPT !.frame = [t \in Threads |-> RegIdle]]
    /\ db = NoDb
    /\ tx = NoTx
    /\ settle = NoSettle
    /\ resp = NoResp

NextReg ==
    \E t \in Threads :
        \/ \E symbol \in RegSymbols : RegCall(t, symbol)
        \/ RegRLock(t)
        \/ RegRead(t)
        \/ RegRUnlock(t)
        \/ RegLock(t)
        \/ RegCreate(t)

SpecReg == InitReg /\ [][NextReg]_vars

\* ------------------------------------------------------------------ ledger
\* package database, balances: a table keyed by (user_id, asset) with the
\* columns available and locked.  Amounts are whole numbers of the columns'
\* resolution, on which the UPDATE's arithmetic is exact.
MaxAmount == 3

Users == {"u1", "u2"}
Assets == {"BTC", "USD"}
Amounts == (0 - 1)..(MaxAmount + 1)

HasRow(bal, user, asset) == <<user, asset>> \in DOMAIN bal

\* INSERT INTO balances (user_id, asset, available, locked) VALUES (.., .., 0, 0)
\* ON CONFLICT DO NOTHING, after a SELECT that found no row
GetOrCreateBalanceInTx(bal, user, asset) ==
    IF HasRow(bal, user, asset) THEN bal
    ELSE (<<user, asset>> :> [available |-> 0, locked |-> 0]) @@ bal

\* (mutant) the UPDATE's WHERE clause without "available >= $1"
LockRowMatchesAny(bal, user, asset, amount) == HasRow(bal, user, asset)

\* the rows LockFunds' UPDATE affects: WHERE user_id, asset AND available >= $1
LockRowMatches(bal, user, asset, amount) ==
    HasRow(bal, user, asset) /\ bal[<<user, asset>>].available >= amount

\* LockFunds(ctx, tx, userID, asset, amount): the balances after it, and its error
LockFunds(bal, user, asset, amount) ==
    IF amount <= 0
    THEN [bal |-> bal, err |-> "not_positive"]
    ELSE IF LockRowMatches(bal, user, asset, amount)
    THEN [bal |-> [bal EXCEPT ![<<user, asset>>] =
                        [available |-> @.available - amount, locked |-> @.locked + amount]],
          err |-> None]
    ELSE [bal |-> bal, err |-> "insufficient_funds"]

\* (mutant) the UPDATE's WHERE clause with the check of LockFunds left in
UnlockRowMatchesAvailable(bal, user, asset, amount) ==
    HasRow(bal, user, asset) /\ bal[<<user, asset>>].available >= amount

\* the rows UnlockFunds' UPDATE affects: WHERE user_id, asset AND locked >= $1
UnlockRowMatches(bal, user, asset, amount) ==
    HasRow(bal, user, asset) /\ bal[<<user, asset>>].locked >= amount

\* UnlockFunds(ctx, tx, userID, asset, amount)
UnlockFunds(bal, user, asset, amount) ==
    IF amount <= 0
    THEN [bal |-> bal, err |-> "not_positive"]
    ELSE IF UnlockRowMatches(bal, user, asset, amount)
    THEN [bal |-> [bal EXCEPT ![<<user, asset>>] =
                        [available |-> @.available + amount, locked |-> @.locked - amount]],
          err |-> None]
    ELSE [bal |-> bal, err |-> "unlock_failed"]

\* a ledger call as the next call's history keeps it
Brief(r) ==
    IF r.op = "none" THEN NoResp
    ELSE [op |-> r.op, user |-> r.user, asset |-> r.asset, amount |-> r.amount,
          err |-> r.err, before |-> r.before]

\* the ledger calls one at a time, each in a transaction of its own that
\* commits when the call succeeds
LedgerLock(user, asset, amount) ==
    LET r == LockFunds(db.balances, user, asset, amount)
    IN  /\ db' = [db EXCEPT !.balances = r.bal]
        /\ resp' = [op |-> "lock", user |-> user, asset |-> asset, amount |-> amount,
                    err |-> r.err, before |-> db.balances, prev |-> Brief(resp)]
        /\ UNCHANGED <<seqVars, concVars, reg, tx, settle>>

LedgerUnlock(user, asset, amount) ==
    LET r == UnlockFunds(db.balances, user, asset, amount)
    IN  /\ db' = [db EXCEPT !.balances = r.bal]
        /\ resp' = [op |-> "unlock", user |-> user, asset |-> asset, amount |-> amount,
                    err |-> r.err, before |-> db.balances, prev |-> Brief(resp)]
        /\ UNCHANGED <<seqVars, concVars, reg, tx, settle>>

\* balances as the database may hold them: u1 has a USD row with any amounts,
\* and no BTC row yet
InitLedger ==
    /\ books = [s \in {} |-> NewOrderBook(s)]
    /\ heap = [id \in OrderIds |-> NoOrder]
    /\ issued = 0
    /\ last = NoCall
    /\ Quiet
    /\ committed = <<>>
    /\ reg = NoReg
    /\ \E a, l \in 0..MaxAmount :
          db = [NoDb EXCEPT !.balances = (<<"u1", "USD">> :> [available |-> a, locked |-> l])]
    /\ tx = NoTx
    /\ settle = NoSettle
    /\ resp = NoResp

NextLedger ==
    \/ \E asset \in Assets, amount \in Amounts : LedgerLock("u1", asset, amount)
    \/ \E asset \in Assets, amount \in Amounts : LedgerUnlock("u1", asset, amount)

SpecLedger == InitLedger /\ [][NextLedger]_vars

\* ------------------------------------------------------------------ transactions
\* The ledger part of CreateOrder run by several requests at once, each in a
\* database transaction of its own, for orders that lock the same balance.
\* A transaction sees the committed rows and its own writes; SELECT ... FOR
\* UPDATE and UPDATE take the row's lock, which is held until the transaction
\* ends, and wait while another transaction holds it.
\* tx.holder: who holds which row's lock; tx.frame[t]: where request t is, its
\* lock amount, the row as its transaction has written it, LockFunds' error and
\* (history) how many locks had committed when it began; tx.won: (history) the
\* amounts of the locks that committed; tx.initial: (history) the first row.
TheRow == <<"u1", "USD">>

TxIdle == [at |-> "idle", amount |-> 0, row |-> NoRows, err |-> None, began |-> 0]

\* (mutant) statements do not wait for the row's lock
RowLockIgnored(holder, key, t) == TRUE

\* the row's lock can be taken by t: nobody else holds it
RowLockFree(holder, key, t) == IF key \in DOMAIN holder THEN holder[key] = t ELSE TRUE

\* the balances as transaction t sees them: committed rows under its own writes
TxView(t) == tx.frame[t].row @@ db.balances

\* tx, err := database.DB.Begin(ctx), for an order that locks `amount`
TxBegin(t, amount) ==
    /\ tx.frame[t].at = "idle"
    /\ tx' = [tx EXCEPT !.frame[t] = [TxIdle EXCEPT !.at = "get", !.amount = amount,
                                                     !.began = Len(tx.won)]]
    /\ UNCHANGED <<seqVars, concVars, reg, db, settle, resp>>

\* database.GetOrCreateBalanceInTx: SELECT ... FOR UPDATE finds the row
TxGetBalance(t) ==
    /\ tx.frame[t].at = "get"
    /\ RowLockFree(tx.holder, TheRow, t)
    /\ tx' = [tx EXCEPT !.holder = (TheRow :> t) @@ @, !.frame[t].at = "lock"]
    /\ UNCHANGED <<seqVars, concVars, reg, db, settle, resp>>

\* database.LockFunds: the UPDATE, then the check of RowsAffected
TxLockFunds(t) ==
    /\ tx.frame[t].at = "lock"
    /\ RowLockFree(tx.holder, TheRow, t)
    /\ LET r == LockFunds(TxView(t), TheRow[1], TheRow[2], tx.frame[t].amount)
       IN  tx' = [tx EXCEPT !.holder = (TheRow :> t) @@ @,
                            !.frame[t].at = IF r.err = None THEN "commit" ELSE "rollback",
                            !.frame[t].err = r.err,
                            !.frame[t].row = IF r.err = None
                                             THEN (TheRow :> r.bal[TheRow])
                                             ELSE tx.frame[t].row]
    /\ UNCHANGED <<seqVars, concVars, reg, db, settle, resp>>

\* the locks t holds are released when its transaction ends
Release(holder, t) ==
    LET keep == {k \in DOMAIN holder : holder[k] # t}
    IN  [k \in keep |-> holder[k]]

\* tx.Commit: the transaction's writes become the committed rows
TxCommit(t) ==
    /\ tx.frame[t].at = "commit"
    /\ db' = [db EXCEPT !.balances = TxView(t)]
    /\ tx' = [tx EXCEPT !.holder = Release(@, t), !.frame[t] = TxIdle,
                         !.won = Append(@, tx.frame[t].amount)]
    /\ UNCHANGED <<seqVars, concVars, reg, settle, resp>>

\* the deferred tx.Rollback after LockFunds failed: the writes are dropped
TxRollback(t) ==
    /\ tx.frame[t].at = "rollback"
    /\ tx' = [tx EXCEPT !.holder = Release(@, t), !.frame[t] = TxIdle]
    /\ UNCHANGED <<seqVars, concVars, reg, db, settle, resp>>

\* the row exists with some funds available; nobody is in a request
InitTx ==
    /\ books = [s \in {} |-> NewOrderBook(s)]
    /\ heap = [id \in OrderIds |-> NoOrder]
    /\ issued = 0
    /\ last = NoCall
    /\ Quiet
    /\ committed = <<>>
    /\ reg = NoReg
    /\ \E a \in 1..MaxAmount, l \in 0..1 :
          /\ db = [NoDb EXCEPT !.balances = (TheRow :> [available |-> a, locked |-> l])]
          /\ tx = [NoTx EXCEPT !.frame = [t \in Threads |-> TxIdle],
                               !.initial = [available |-> a, locked |-> l]]
    /\ settle = NoSettle
    /\ resp = NoResp

NextTx ==
    \E t \in Threads :
        \/ \E amount \in 1..MaxAmount : TxBegin(t, amount)
        \/ TxGetBalance(t)
        \/ TxLockFunds(t)
        \/ TxCommit(t)
        \/ TxRollback(t)

SpecTx == InitTx /\ [][NextTx]_vars

\* ------------------------------------------------------------------ fills
\* The ledger functions of package database as a caller with a transaction
\* uses them: Begin, any calls of GetOrCreateBalanceInTx, LockFunds,
\* UnlockFunds and UpdateBalancesForFill, then Commit; as everywhere in the
\* repository, a call's error makes the caller return, which rolls back.
\* UpdateBalancesForFill applies ONE user's side of a fill; the fill of a
\* trade between a buyer and a seller takes the call for the buyer (side
\* "buy") and the call for the seller (side "sell").
\* tx.frame: the open transaction (its view of the balances, the legs it has
\* applied, whether a call failed); tx.won: (history) the legs that
\* committed; tx.initial: (history) the first balances.
MaxLegs == 2

FillQuotes == {1, 2}

\* the fills of trades between the buyer u1 and the seller u2: one lot of BTC
\* for its price in USD
Fills ==
    [buyer : {"u1"}, seller : {"u2"}, baseAsset : {"BTC"}, quoteAsset : {"USD"},
     baseAmount : {1}, quoteAmount : FillQuotes]

\* the user whose balances the leg of this side changes
LegUser(f, side) == IF side = "buy" THEN f.buyer ELSE f.seller

\* (mutant) the UPDATE's WHERE clause without "locked >= $1"
FillRowMatchesAny(bal, user, asset, amount) == HasRow(bal, user, asset)

\* the rows query1's UPDATE affects: WHERE user_id, asset AND locked >= $1
FillRowMatches(bal, user, asset, amount) ==
    HasRow(bal, user, asset) /\ bal[<<user, asset>>].locked >= amount

\* query2: INSERT (user, asset, amount, 0) ON CONFLICT DO UPDATE SET
\* available = balances.available + amount
Credit(bal, user, asset, amount) ==
    IF HasRow(bal, user, asset)
    THEN [bal EXCEPT ![<<user, asset>>].available = @ + amount]
    ELSE (<<user, asset>> :> [available |-> amount, locked |-> 0]) @@ bal

\* UpdateBalancesForFill(ctx, tx, userID, baseAsset, quoteAsset, baseAmount,
\* quoteAmount, side): the balances after it, and its error
UpdateBalancesForFill(bal, user, baseAsset, quoteAsset, baseAmount, quoteAmount, side) ==
    IF side = "buy"
    THEN IF FillRowMatches(bal, user, quoteAsset, quoteAmount)
         THEN [bal |-> Credit([bal EXCEPT ![<<user, quoteAsset>>].locked = @ - quoteAmount],
                              user, baseAsset, baseAmount),
               err |-> None]
         ELSE [bal |-> bal, err |-> "fill_failed"]
    ELSE IF side = "sell"
    THEN IF FillRowMatches(bal, user, baseAsset, baseAmount)
         THEN [bal |-> Credit([bal EXCEPT ![<<user, baseAsset>>].locked = @ - baseAmount],
                              user, quoteAsset, quoteAmount),
               err |-> None]
         ELSE [bal |-> bal, err |-> "fill_failed"]
    ELSE [bal |-> bal, err |-> "invalid_side"]

NoFill == [open |-> FALSE, bal |-> NoRows, legs |-> <<>>, failed |-> FALSE]

\* a call inside the open transaction: its result r and what history keeps
FillCall(op, r, legs) ==
    /\ tx.frame.open /\ ~tx.frame.failed
    /\ tx' = [tx EXCEPT !.frame.bal = r.bal, !.frame.legs = @ \o legs,
                        !.frame.failed = (r.err # None)]
    /\ resp' = [op |-> op, err |-> r.err]
    /\ UNCHANGED <<seqVars, concVars, reg, db, settle>>

\* DB.Begin
FillBegin ==
    /\ ~tx.frame.open
    /\ tx' = [tx EXCEPT !.frame = [NoFill EXCEPT !.open = TRUE, !.bal = db.balances]]
    /\ resp' = [op |-> "begin", err |-> None]
    /\ UNCHANGED <<seqVars, concVars, reg, db, settle>>

FillGetOrCreate(user, asset) ==
    FillCall("get_or_create",
             [bal |-> GetOrCreateBalanceInTx(tx.frame.bal, user, asset), err |-> None], <<>>)

FillLock(user, asset, amount) ==
    FillCall("lock", LockFunds(tx.frame.bal, user, asset, amount), <<>>)

FillUnlock(user, asset, amount) ==
    FillCall("unlock", UnlockFunds(tx.frame.bal, user, asset, amount), <<>>)

\* one user's side of fill f
FillLeg(f, side) ==
    LET r == UpdateBalancesForFill(tx.frame.bal, LegUser(f, side), f.baseAsset,
                                   f.quoteAsset, f.baseAmount, f.quoteAmount, side)
    IN  /\ Len(tx.won) + Len(tx.frame.legs) < MaxLegs
        /\ FillCall("fill", r,
                    IF r.err = None THEN <<[fill |-> f, side |-> side]>> ELSE <<>>)

\* tx.Commit after calls that all succeeded
FillCommit ==
    /\ tx.frame.open /\ ~tx.frame.failed
    /\ db' = [db EXCEPT !.balances = tx.frame.bal]
    /\ tx' = [tx EXCEPT !.frame = NoFill, !.won = @ \o tx.frame.legs]
    /\ resp' = [op |-> "commit", err |-> None]
    /\ UNCHANGED <<seqVars, concVars, reg, settle>>

\* the deferred tx.Rollback
FillRollback ==
    /\ tx.frame.open
    /\ tx' = [tx EXCEPT !.frame = NoFill]
    /\ resp' = [op |-> "rollback", err |-> None]
    /\ UNCHANGED <<seqVars, concVars, reg, db, settle>>

\* u1 holds USD and u2 holds BTC, part of it locked for their orders; u1 has
\* no BTC row and u2 no USD row yet
InitFill ==
    /\ books = [s \in {} |-> NewOrderBook(s)]
    /\ heap = [id \in OrderIds |-> NoOrder]
    /\ issued = 0
    /\ last = NoCall
    /\ Quiet
    /\ committed = <<>>
    /\ reg = NoReg
    /\ \E m \in 0..1 :
          /\ db = [NoDb EXCEPT !.balances =
                      (<<"u1", "USD">> :> [available |-> 1, locked |-> MaxAmount])
                      @@ (<<"u2", "BTC">> :> [available |-> 0, locked |-> m])]
          /\ tx = [NoTx EXCEPT !.frame = NoFill, !.initial = db.balances]
    /\ settle = NoSettle
    /\ resp = NoResp

NextFill ==
    \/ FillBegin
    \/ \E user \in Users, asset \in Assets : FillGetOrCreate(user, asset)
    \/ \E user \in Users, asset \in Assets, amount \in 0..1 : FillLock(user, asset, amount)
    \/ \E user \in Users, asset \in Assets, amount \in 0..1 : FillUnlock(user, asset, amount)
    \/ \E f \in Fills, side \in Sides : FillLeg(f, side)
    \/ FillCommit
    \/ FillRollback

SpecFill == InitFill /\ [][NextFill]_vars

\* ------------------------------------------------------------------ balance rows
\* GetOrCreateBalance (each statement commits by itself) and
\* GetOrCreateBalanceInTx (inside the caller's transaction) called from several
\* requests at once for the same (user, asset), next to a writer that credits
\* the balance (query2 of UpdateBalancesForFill, an upsert).  An INSERT that
\* meets another transaction's uncommitted row of the same key waits for that
\* transaction to end; SELECT ... FOR UPDATE and UPDATE wait for the row's lock.
\* tx.frame[t]: where call t is, whether it runs in a transaction, whether its
\* transaction has inserted the row, and what it returns (<<>>: nil, <<row>>);
\* tx.won: (history) the credits applied; tx.initial: (history) the first table.
ZeroBalance == [available |-> 0, locked |-> 0]

BalIdle == [at |-> "idle", intx |-> FALSE, new |-> FALSE, ret |-> <<>>]

\* the balances as call t sees them: the committed rows and its own insert
BalView(t) ==
    IF tx.frame[t].new THEN (TheRow :> ZeroBalance) @@ db.balances ELSE db.balances

\* GetBalance / GetBalanceInTx: nil, or the row
GetBalance(bal, key) == IF key \in DOMAIN bal THEN <<bal[key]>> ELSE <<>>

\* another transaction has inserted the row and not ended yet
PendingElsewhere(t) == \E o \in Threads \ {t} : tx.frame[o].new

\* (mutant) the INSERT without its ON CONFLICT clause taking effect
ConflictNever(bal, key) == FALSE

\* ON CONFLICT (user_id, asset): a committed row with this key exists
Conflict(bal, key) == key \in DOMAIN bal

BalCall(t, intx) ==
    /\ tx.frame[t].at = "idle"
    /\ tx' = [tx EXCEPT !.frame[t] = [BalIdle EXCEPT !.at = "get", !.intx = intx]]
    /\ resp' = [op |-> "call", t |-> t]
    /\ UNCHANGED <<seqVars, concVars, reg, db, settle>>

\* the first GetBalance: the row is returned, or the call goes on to insert
BalGet(t) ==
    LET f     == tx.frame[t]
        found == GetBalance(BalView(t), TheRow)
        locks == f.intx /\ found # <<>>
    IN  /\ f.at = "get"
        /\ locks => RowLockFree(tx.holder, TheRow, t)
        /\ tx' = [tx EXCEPT !.holder = IF locks THEN (TheRow :> t) @@ @ ELSE @,
                            !.frame[t].at = IF found # <<>> THEN "done" ELSE "insert",
                            !.frame[t].ret = found]
        /\ resp' = [op |-> "get", t |-> t]
        /\ UNCHANGED <<seqVars, concVars, reg, db, settle>>

\* INSERT ... VALUES (.., .., 0, 0) ON CONFLICT DO NOTHING RETURNING updated_at
BalInsert(t) ==
    LET f == tx.frame[t]
    IN  /\ f.at = "insert"
        /\ ~PendingElsewhere(t)
        /\ IF Conflict(db.balances, TheRow)
           THEN /\ tx' = [tx EXCEPT !.frame[t].at = "refetch"]
                /\ UNCHANGED db
           ELSE IF f.intx
           THEN /\ tx' = [tx EXCEPT !.holder = (TheRow :> t) @@ @,
                                    !.frame[t].at = "done", !.frame[t].new = TRUE,
                                    !.frame[t].ret = <<ZeroBalance>>]
                /\ UNCHANGED db
           ELSE /\ tx' = [tx EXCEPT !.frame[t].at = "done",
                                    !.frame[t].ret = <<ZeroBalance>>]
                /\ db' = [db EXCEPT !.balances = (TheRow :> ZeroBalance) @@ @]
        /\ resp' = [op |-> "insert", t |-> t]
        /\ UNCHANGED <<seqVars, concVars, reg, settle>>

\* after a conflict: return GetBalance(ctx, userID, asset)
BalRefetch(t) ==
    LET f     == tx.frame[t]
        found == GetBalance(BalView(t), TheRow)
        locks == f.intx /\ found # <<>>
    IN  /\ f.at = "refetch"
        /\ locks => RowLockFree(tx.holder, TheRow, t)
        /\ tx' = [tx EXCEPT !.holder = IF locks THEN (TheRow :> t) @@ @ ELSE @,
                            !.frame[t].at = "done", !.frame[t].ret = found]
        /\ resp' = [op |-> "refetch", t |-> t]
        /\ UNCHANGED <<seqVars, concVars, reg, db, settle>>

\* GetOrCreateBalance returns
BalReturn(t) ==
    /\ tx.frame[t].at = "done" /\ ~tx.frame[t].intx
    /\ tx' = [tx EXCEPT !.frame[t] = BalIdle]
    /\ resp' = [op |-> "return", t |-> t, ret |-> tx.frame[t].ret]
    /\ UNCHANGED <<seqVars, concVars, reg, db, settle>>

\* the caller of GetOrCreateBalanceInTx commits
BalCommit(t) ==
    /\ tx.frame[t].at = "done" /\ tx.frame[t].intx
    /\ db' = [db EXCEPT !.balances = BalView(t)]
    /\ tx' = [tx EXCEPT !.holder = Release(@, t), !.frame[t] = BalIdle]
    /\ resp' = [op |-> "return", t |-> t, ret |-> tx.frame[t].ret]
    /\ UNCHANGED <<seqVars, concVars, reg, settle>>

\* the caller of GetOrCreateBalanceInTx rolls back
BalRollback(t) ==
    /\ tx.frame[t].at = "done" /\ tx.frame[t].intx
    /\ tx' = [tx EXCEPT !.holder = Release(@, t), !.frame[t] = BalIdle]
    /\ resp' = [op |-> "rollback", t |-> t]
    /\ UNCHANGED <<seqVars, concVars, reg, db, settle>>

\* another writer credits one unit to the balance, creating the row if needed
BalCredit ==
    /\ Len(tx.won) < MaxAmount
    /\ TheRow \notin DOMAIN tx.holder
    /\ \A t \in Threads : ~tx.frame[t].new
    /\ db' = [db EXCEPT !.balances = Credit(@, TheRow[1], TheRow[2], 1)]
    /\ tx' = [tx EXCEPT !.won = Append(@, 1)]
    /\ resp' = [op |-> "credit", t |-> 0]
    /\ UNCHANGED <<seqVars, concVars, reg, settle>>

\* the row does not exist yet, or exists with some amounts
InitBal ==
    /\ books = [s \in {} |-> NewOrderBook(s)]
    /\ heap = [id \in OrderIds |-> NoOrder]
    /\ issued = 0
    /\ last = NoCall
    /\ Quiet
    /\ committed = <<>>
    /\ reg = NoReg
    /\ \E bal \in {NoRows} \cup {(TheRow :> [available |-> a, locked |-> 1]) : a \in 0..1} :
          /\ db = [NoDb EXCEPT !.balances = bal]
          /\ tx = [NoTx EXCEPT !.frame = [t \in Threads |-> BalIdle], !.initial = bal]
    /\ settle = NoSettle
    /\ resp = NoResp

NextBal ==
    \/ \E t \in Threads, intx \in BOOLEAN : BalCall(t, intx)
    \/ \E t \in Threads : BalGet(t)
    \/ \E t \in Threads : BalInsert(t)
    \/ \E t \in Threads : BalRefetch(t)
    \/ \E t \in Threads : BalReturn(t)
    \/ \E t \in Threads : BalCommit(t)
    \/ \E t \in Threads : BalRollback(t)
    \/ BalCredit

SpecBal == InitBal /\ [][NextBal]_vars

\* ------------------------------------------------------------------ requests
\* The request handlers CreateOrder and CancelOrder over the database, the
\* ledger and the Manager, one request at a time, and the processTrades
\* goroutines that SubmitOrder starts.  A lot of the base asset is one unit of
\* the BTC balance, and price * quantity that many units of the USD balance.
\* tx.locks: (history) by order id, the LockFunds that committed with the
\* order's record.  settle.jobs: the running processTrades goroutines, each
\* with its trades and the index of the next one; settle.done: how often each
\* trade has been processed; settle.emitted: (history) the trades AddOrder
\* has returned to SubmitOrder.
MaxSysOrders == 2

SysPrices == {99, 100}
SysQtys == {1, 2}

\* request bodies that pass CreateOrder's validation
Requests ==
    [Symbol : {"btc-usd"}, Type : {"limit"}, Side : Sides, Price : SysPrices,
     Quantity : SysQtys]
    \cup [Symbol : {"BTC-USD"}, Type : {"market"}, Side : Sides, Price : {0},
          Quantity : {1}]

\* parts := strings.Split(symbol, "-")
BaseAsset(symbol) == IF symbol = "BTC-USD" THEN "BTC" ELSE "?"
QuoteAsset(symbol) == IF symbol = "BTC-USD" THEN "USD" ELSE "?"

\* the asset and the amount an order locks, and a cancel unlocks
FundsAsset(o) == IF o.Side = "buy" THEN QuoteAsset(o.Symbol) ELSE BaseAsset(o.Symbol)
FundsAmount(o) == IF o.Side = "buy" THEN o.Price * o.Quantity ELSE o.Quantity

\* (mutant) the request goes on although LockFunds returned an error
LockRefusedNever(err) == FALSE

\* if err != nil after LockFunds: the request ends with 400
LockRefused(err) == err # None

\* (mutant) the goroutine is only started for more than one trade
StartsSettlementForSeveral(trades) == Len(trades) > 1

\* if len(trades) > 0 { go m.processTrades(trades) }
StartsSettlement(trades) == Len(trades) > 0

Spawn(st, taker, trades) ==
    IF StartsSettlement(trades)
    THEN [st EXCEPT !.jobs = @ \cup {[taker |-> taker, trades |-> trades, i |-> 1]},
                    !.emitted = @ \cup Range(trades)]
    ELSE [st EXCEPT !.emitted = @ \cup Range(trades)]

\* the order record as database.CreateOrder inserts it
OrderRow(user, order) ==
    [UserID |-> user, Symbol |-> order.Symbol, Type |-> order.Type, Side |-> order.Side,
     Price |-> order.Price, Quantity |-> order.Quantity, Status |-> "open"]

\* (mutant) the insert hands out the id of the newest record again
NewOrderIdReused(n) == IF n = 0 THEN 1 ELSE n

\* INSERT INTO orders ... RETURNING id: the store gives every record a new id
NewOrderId(n) == n + 1

\* the request ends without any effect but its response
Refuse(op, user, arg, code) ==
    /\ resp' = [op |-> op, user |-> user, arg |-> arg, code |-> code]
    /\ UNCHANGED <<seqVars, concVars, reg, db, tx, settle>>

\* POST /orders: validation, the transaction (lock funds, insert the order,
\* commit), then Manager.SubmitOrder, whose error is only logged
CreateOrder(user, req) ==
    LET id    == NewOrderId(issued)
        order == [ID |-> id, Symbol |-> ToUpper(req.Symbol), Type |-> req.Type,
                  Side |-> req.Side, Price |-> req.Price, Quantity |-> req.Quantity]
        bal   == GetOrCreateBalanceInTx(db.balances, user, FundsAsset(order))
        lk    == LockFunds(bal, user, FundsAsset(order), FundsAmount(order))
        bks   == GetOrCreateBook(books, order.Symbol)
        r     == AddOrder(bks[order.Symbol], heap, order)
        nb    == [bks EXCEPT ![order.Symbol] = r.b]
    IN  IF order.Side = "buy" /\ order.Type # "limit"
        THEN Refuse("create", user, req, 501)
        ELSE IF LockRefused(lk.err)
        THEN Refuse("create", user, req, 400)
        ELSE    /\ issued < MaxSysOrders
                /\ db' = [balances |-> lk.bal,
                          orders |-> (id :> OrderRow(user, order)) @@ db.orders]
                /\ tx' = [tx EXCEPT !.locks = Append(@,
                              [ok |-> lk.err = None, user |-> user,
                               asset |-> FundsAsset(order), amount |-> FundsAmount(order)])]
                /\ issued' = id
                /\ books' = nb
                /\ heap' = Collect(nb, r.h)
                /\ last' = [NoCall EXCEPT !.op = "add", !.arg = order, !.err = r.err,
                                          !.trades = r.trades]
                /\ settle' = IF r.err = None THEN Spawn(settle, id, r.trades) ELSE settle
                /\ resp' = [op |-> "create", user |-> user, arg |-> req, code |-> 201]
                /\ UNCHANGED <<concVars, reg>>

\* database.CancelOrder: the row of this user's order, if it is open
CancelError(orders, user, id) ==
    IF id \notin DOMAIN orders THEN "not_found"
    ELSE IF orders[id].UserID # user THEN "not_found"
    ELSE IF orders[id].Status # "open" THEN "not_cancellable"
    ELSE None

\* DELETE /orders/:id: the transaction (mark the record cancelled, unlock the
\* funds of the record's price and quantity, commit), then Manager.CancelOrder,
\* whose error is only logged
CancelOrderRequest(user, id) ==
    LET err == CancelError(db.orders, user, id)
    IN  IF err = "not_found" THEN Refuse("cancel", user, id, 404)
        ELSE IF err = "not_cancellable" THEN Refuse("cancel", user, id, 400)
        ELSE LET o   == db.orders[id]
                 ul  == UnlockFunds(db.balances, user, FundsAsset(o), FundsAmount(o))
                 bks == GetOrCreateBook(books, o.Symbol)
                 r   == CancelOrder(bks[o.Symbol], heap, id)
                 nb  == [bks EXCEPT ![o.Symbol] = r.b]
             IN  IF ul.err # None THEN Refuse("cancel", user, id, 500)
                 ELSE /\ db' = [balances |-> ul.bal,
                                orders |-> [db.orders EXCEPT ![id].Status = "cancelled"]]
                      /\ books' = nb
                      /\ heap' = Collect(nb, heap)
                      /\ last' = [NoCall EXCEPT !.op = "cancel",
                                                !.arg = [ID |-> id, Symbol |-> o.Symbol],
                                                !.err = r.err, !.removed = r.removed]
                      /\ resp' = [op |-> "cancel", user |-> user, arg |-> id, code |-> 200]
                      /\ UNCHANGED <<issued, concVars, reg, tx, settle>>

\* how often trade tr has been processed
Done(st, tr) == IF tr \in DOMAIN st.done THEN st.done[tr] ELSE 0

\* one iteration of processTrades' loop in goroutine j: the trade is logged,
\* nothing else is done with it; after the last one the goroutine ends
ProcessTrade(j) ==
    /\ j \in settle.jobs
    /\ LET tr   == j.trades[j.i]
           rest == settle.jobs \ {j}
       IN  settle' = [settle EXCEPT
                        !.done = (tr :> (Done(settle, tr) + 1)) @@ @,
                        !.jobs = IF j.i = Len(j.trades) THEN rest
                                 ELSE rest \cup {[j EXCEPT !.i = @ + 1]}]
    /\ UNCHANGED <<seqVars, concVars, reg, db, tx, resp>>

\* the database as it is handed to the server: u1 holds USD and has no BTC
\* row, u2 holds BTC and a little USD; no order yet
InitSys ==
    /\ books = [s \in {} |-> NewOrderBook(s)]
    /\ heap = [id \in OrderIds |-> NoOrder]
    /\ issued = 0
    /\ last = NoCall
    /\ Quiet
    /\ committed = <<>>
    /\ reg = NoReg
    /\ db = [NoDb EXCEPT !.balances =
                (<<"u1", "USD">> :> [available |-> 300, locked |-> 0])
                @@ (<<"u2", "BTC">> :> [available |-> 3, locked |-> 0])
                @@ (<<"u2", "USD">> :> [available |-> 100, locked |-> 0])]
    /\ tx = NoTx
    /\ settle = NoSettle
    /\ resp = NoResp

NextSys ==
    \/ \E user \in Users, req \in Requests : CreateOrder(user, req)
    \/ \E user \in Users, id \in 1..(issued + 1) : CancelOrderRequest(user, id)
    \/ \E j \in settle.jobs : ProcessTrade(j)

SpecSys == InitSys /\ [][NextSys]_vars

\* ------------------------------------------------------------------ concurrent requests
\* The handlers CreateOrder and CancelOrder step by step, two requests at a
\* time, each in its own database transaction (READ COMMITTED: a statement
\* sees what is committed and its own transaction's writes; a row written or
\* selected FOR UPDATE is locked until the transaction ends).  A statement on
\* the storage may fail (err != nil): the handler then answers 500 and the
\* deferred tx.Rollback drops the transaction's writes.  Requests are served
\* by interchangeable goroutines: a new request takes the first idle handler.
\* The processTrades goroutine a submit may start only logs its trades and
\* is left to the requests section above.
\* tx.frame[h]: handler h's position, its request and its transaction's
\* uncommitted writes; tx.holder: the balance rows locked, by handler;
\* tx.locks: the order rows locked, by handler; tx.won: (history) the ids of
\* the orders whose cancellation has been committed.
Handlers == {1, 2}

NoRequest == [Symbol |-> "", Type |-> "", Side |-> "", Price |-> 0, Quantity |-> 0]

ReqIdle == [at |-> "idle", op |-> "none", user |-> "", req |-> NoRequest, id |-> 0,
            writes |-> NoDb]

\* request bodies that pass CreateOrder's validation
ReqRequests ==
    [Symbol : {"btc-usd"}, Type : {"limit"}, Side : Sides, Price : {99}, Quantity : {1}]
    \cup [Symbol : {"BTC-USD"}, Type : {"market"}, Side : {"buy"}, Price : {0},
          Quantity : {1}]

\* order := &models.Order{...} of the request in handler h's frame
ReqOrder(f) ==
    [ID |-> f.id, Symbol |-> ToUpper(f.req.Symbol), Type |-> f.req.Type,
     Side |-> f.req.Side, Price |-> f.req.Price, Quantity |-> f.req.Quantity]

\* (mutant) the balance statement runs on the pool: it is committed at once
StageBalancesOnPool(d, w) == [d EXCEPT !.balances = w @@ @]

\* a balance statement run on tx: the committed rows stay as they are
StageBalances(d, w) == d

\* (mutant) the order statement runs on the pool: it is committed at once
StageOrdersOnPool(d, w) == [d EXCEPT !.orders = w @@ @]

\* an order statement run on tx: the committed rows stay as they are
StageOrders(d, w) == d

\* no other transaction holds the row's lock
RowFree(held, key, h) == IF key \in DOMAIN held THEN held[key] = h ELSE TRUE

\* (mutant) SELECT without FOR UPDATE: the order row's lock is not waited for
OrderRowFreeAlways(held, id, h) == TRUE

\* SELECT ... FROM orders WHERE id = $1 AND user_id = $2 FOR UPDATE waits for
\* the row's lock
OrderRowFree(held, id, h) == RowFree(held, id, h)

\* the locks left when handler h's transaction ends
Unlocked(held, h) == [k \in {x \in DOMAIN held : held[x] # h} |-> held[k]]

\* the response of handler h
Response(h, code) ==
    [op |-> tx.frame[h].op, id |-> tx.frame[h].id, at |-> tx.frame[h].at, code |-> code]

\* return c.Status(code) before the commit: the deferred Rollback ends the
\* transaction without its writes
Abort(h, code) ==
    /\ resp' = Response(h, code)
    /\ tx' = [tx EXCEPT !.frame[h] = ReqIdle, !.holder = Unlocked(@, h),
                        !.locks = Unlocked(@, h)]
    /\ UNCHANGED <<seqVars, concVars, reg, db, settle>>

\* tx.Commit: the transaction's writes become the committed rows
Committed(d, w) ==
    [balances |-> w.balances @@ d.balances, orders |-> w.orders @@ d.orders]

\* the handler a new request gets
Takes(h) ==
    /\ tx.frame[h].at = "idle"
    /\ \A g \in Handlers : g < h => tx.frame[g].at # "idle"

\* POST /orders arrives: validation, Begin (a market buy is refused with 501),
\* then GetOrCreateBalanceInTx and LockFunds on the asset the order pays with
CreateOrderLock(h, user, req) ==
    LET f     == [ReqIdle EXCEPT !.at = "insert", !.op = "create", !.user = user,
                                 !.req = req]
        order == ReqOrder(f)
        key   == <<user, FundsAsset(order)>>
        bal   == GetOrCreateBalanceInTx(db.balances, user, FundsAsset(order))
        lk    == LockFunds(bal, user, FundsAsset(order), FundsAmount(order))
        w     == (key :> lk.bal[key])
    IN  /\ Takes(h)
        /\ issued + Cardinality({g \in Handlers : tx.frame[g].at = "insert"}) < MaxSysOrders
        /\ IF req.Side = "buy" /\ req.Type # "limit"
           THEN /\ resp' = [op |-> "create", id |-> 0, at |-> "begin", code |-> 501]
                /\ UNCHANGED <<seqVars, concVars, reg, db, tx, settle>>
           ELSE /\ RowFree(tx.holder, key, h)
                /\ IF LockRefused(lk.err)
                   THEN /\ resp' = [op |-> "create", id |-> 0, at |-> "lock", code |-> 400]
                        /\ UNCHANGED <<seqVars, concVars, reg, db, tx, settle>>
                   ELSE /\ tx' = [tx EXCEPT !.frame[h] = [f EXCEPT !.writes.balances = w],
                                            !.holder = (key :> h) @@ @]
                        /\ db' = StageBalances(db, w)
                        /\ UNCHANGED <<seqVars, concVars, reg, settle, resp>>

\* database.CreateOrder: INSERT INTO orders ... RETURNING id
CreateOrderInsert(h, fails) ==
    LET f  == tx.frame[h]
        id == NewOrderId(issued)
        w  == (id :> OrderRow(f.user, [ReqOrder(f) EXCEPT !.ID = id]))
    IN  /\ f.at = "insert"
        /\ IF fails
           THEN Abort(h, 500)
           ELSE /\ issued' = id
                /\ tx' = [tx EXCEPT !.frame[h].at = "commit", !.frame[h].id = id,
                                    !.frame[h].writes.orders = w]
                /\ db' = StageOrders(db, w)
                /\ UNCHANGED <<books, heap, last, concVars, reg, settle, resp>>

\* tx.Commit of the create transaction
CreateOrderCommit(h, fails) ==
    LET f == tx.frame[h]
    IN  /\ f.at = "commit" /\ f.op = "create"
        /\ IF fails
           THEN Abort(h, 500)
           ELSE /\ db' = Committed(db, f.writes)
                /\ tx' = [tx EXCEPT !.frame[h].at = "submit", !.frame[h].writes = NoDb,
                                    !.holder = Unlocked(@, h), !.locks = Unlocked(@, h)]
                /\ UNCHANGED <<seqVars, concVars, reg, settle, resp>>

\* Manager.SubmitOrder after the commit (its error is only logged), then 201
CreateOrderSubmit(h) ==
    LET f     == tx.frame[h]
        order == ReqOrder(f)
        bks   == GetOrCreateBook(books, order.Symbol)
        r     == AddOrder(bks[order.Symbol], heap, order)
        nb    == [bks EXCEPT ![order.Symbol] = r.b]
    IN  /\ f.at = "submit"
        /\ books' = nb
        /\ heap' = Collect(nb, r.h)
        /\ last' = [NoCall EXCEPT !.op = "add", !.arg = order, !.err = r.err,
                                  !.trades = r.trades]
        /\ resp' = Response(h, 201)
        /\ tx' = [tx EXCEPT !.frame[h] = ReqIdle]
        /\ UNCHANGED <<issued, concVars, reg, db, settle>>

\* DELETE /orders/:id arrives: Begin, then database.CancelOrder: select the
\* user's order FOR UPDATE, check that it is open, set its status to cancelled
CancelOrderMark(h, user, id) ==
    LET err == CancelError(db.orders, user, id)
    IN  /\ Takes(h)
        /\ err # "not_found" => OrderRowFree(tx.locks, id, h)
        /\ IF err # None
           THEN /\ resp' = [op |-> "cancel", id |-> id, at |-> "mark",
                            code |-> IF err = "not_found" THEN 404 ELSE 400]
                /\ UNCHANGED <<seqVars, concVars, reg, db, tx, settle>>
           ELSE LET w == (id :> [db.orders[id] EXCEPT !.Status = "cancelled"])
                IN  /\ tx' = [tx EXCEPT !.frame[h] =
                                [ReqIdle EXCEPT !.at = "unlock", !.op = "cancel",
                                                !.user = user, !.id = id,
                                                !.writes.orders = w],
                                        !.locks = (id :> h) @@ @]
                    /\ db' = StageOrders(db, w)
                    /\ UNCHANGED <<seqVars, concVars, reg, settle, resp>>

\* UnlockFunds of what the order locked
CancelOrderUnlock(h, fails) ==
    LET f   == tx.frame[h]
        o   == db.orders[f.id]
        key == <<f.user, FundsAsset(o)>>
        ul  == UnlockFunds(db.balances, f.user, FundsAsset(o), FundsAmount(o))
        w   == (key :> ul.bal[key])
    IN  /\ f.at = "unlock"
        /\ RowFree(tx.holder, key, h)
        /\ IF (o.Side = "buy" /\ o.Type # "limit") \/ fails \/ ul.err # None
           THEN Abort(h, 500)
           ELSE /\ tx' = [tx EXCEPT !.frame[h].at = "commit",
                                    !.frame[h].writes.balances = w,
                                    !.holder = (key :> h) @@ @]
                /\ db' = StageBalances(db, w)
                /\ UNCHANGED <<seqVars, concVars, reg, settle, resp>>

\* tx.Commit of the cancel transaction
CancelOrderCommit(h, fails) ==
    LET f == tx.frame[h]
    IN  /\ f.at = "commit" /\ f.op = "cancel"
        /\ IF fails
           THEN Abort(h, 500)
           ELSE /\ db' = Committed(db, f.writes)
                /\ tx' = [tx EXCEPT !.frame[h].at = "notify", !.frame[h].writes = NoDb,
                                    !.holder = Unlocked(@, h), !.locks = Unlocked(@, h),
                                    !.won = Append(@, f.id)]
                /\ UNCHANGED <<seqVars, concVars, reg, settle, resp>>

\* Manager.CancelOrder after the commit (its error is only logged), then 200
CancelOrderNotify(h) ==
    LET f   == tx.frame[h]
        o   == db.orders[f.id]
        bks == GetOrCreateBook(books, o.Symbol)
        r   == CancelOrder(bks[o.Symbol], heap, f.id)
        nb  == [bks EXCEPT ![o.Symbol] = r.b]
    IN  /\ f.at = "notify"
        /\ books' = nb
        /\ heap' = Collect(nb, heap)
        /\ last' = [NoCall EXCEPT !.op = "cancel", !.arg = [ID |-> f.id, Symbol |-> o.Symbol],
                                  !.err = r.err, !.removed = r.removed]
        /\ resp' = Response(h, 200)
        /\ tx' = [tx EXCEPT !.frame[h] = ReqIdle]
        /\ UNCHANGED <<issued, concVars, reg, db, settle>>

\* the database as it is handed to the server: u1 holds USD, u2 holds BTC,
\* neither has a row for the other asset; no order yet
InitReq ==
    /\ books = [s \in {} |-> NewOrderBook(s)]
    /\ heap = [id \in OrderIds |-> NoOrder]
    /\ issued = 0
    /\ last = NoCall
    /\ Quiet
    /\ committed = <<>>
    /\ reg = NoReg
    /\ db = [NoDb EXCEPT !.balances =
                (<<"u1", "USD">> :> [available |-> 300, locked |-> 0])
                @@ (<<"u2", "BTC">> :> [available |-> 3, locked |-> 0])]
    /\ tx = [NoTx EXCEPT !.frame = [h \in Handlers |-> ReqIdle], !.locks = NoRows]
    /\ settle = NoSettle
    /\ resp = NoResp

NextReq ==
    \/ \E h \in Handlers, user \in Users, req \in ReqRequests : CreateOrderLock(h, user, req)
    \/ \E h \in Handlers, fails \in BOOLEAN : CreateOrderInsert(h, fails)
    \/ \E h \in Handlers, fails \in BOOLEAN : CreateOrderCommit(h, fails)
    \/ \E h \in Handlers : CreateOrderSubmit(h)
    \/ \E h \in Handlers, user \in Users, id \in 1..issued : CancelOrderMark(h, user, id)
    \/ \E h \in Handlers, fails \in BOOLEAN : CancelOrderUnlock(h, fails)
    \/ \E h \in Handlers, fails \in BOOLEAN : CancelOrderCommit(h, fails)
    \/ \E h \in Handlers : CancelOrderNotify(h)

SpecReq == InitReq /\ [][NextReq]_vars

\* ------------------------------------------------------------------ manager calls
\* Manager.SubmitOrder, CancelOrder and GetBookDepth for BTC-USD called from
\* two goroutines at a time, from the call to the return: GetOrCreateBook under the
\* registry's lock (reg.mu), then the book's method under the book's lock
\* (mu).  reg.frame[t] is goroutine t's position and locals; `iters` counts
\* the iterations of matchOrder's loop and `opp` is the number of orders on
\* the opposing side when the loop began.
\* sync.RWMutex as Go implements it: a Lock that has been called keeps new
\* readers out until it has been served; the readers that came to wait
\* meanwhile are all let in when that writer unlocks; writers queue on an
\* inner mutex that hands the lock to every waiter in the end.
Callers == {1, 2}

MgrIdle == [at |-> "idle", kind |-> "none", order |-> NoOrder, id |-> 0, exists |-> FALSE,
            i |-> 0, trades |-> <<>>, brk |-> FALSE, iters |-> 0, opp |-> 0]

MgrInputs(id) ==
    [ID : {id}, Symbol : {TheBook}, Type : {"limit"}, Side : Sides,
     Price : {99}, Quantity : ConcQtys]
    \cup {[ID |-> id, Symbol |-> TheBook, Type |-> "market", Side |-> "sell",
           Price |-> 99, Quantity |-> 1]}

\* the goroutines whose Lock() on the registry is waiting
RegWriters(frames) == {t \in Callers : frames[t].at = "lock"}

\* the goroutines whose Lock() on the book is waiting
BookWriters(frames) ==
    {t \in Callers : frames[t].at = "book" /\ frames[t].kind \in {"add", "cancel"}}

\* RLock returns at once: no writer holds the lock or waits for it
RLockEnter(m, waiting) == m.writer = 0 /\ waiting = {}

\* (mutant) RUnlock is left out: the reader stays registered
RUnlockSkipped(m, t) == m

\* m.mu.RUnlock()
RUnlock(m, t) == [m EXCEPT !.readers = @ \ {t}]

\* Unlock of the registry: the waiting readers are let in
MgrUnlock(frames, t, f) ==
    [u \in Callers |->
        IF u = t THEN f
        ELSE IF frames[u].at = "rlock" THEN [frames[u] EXCEPT !.at = "read"]
        ELSE frames[u]]

\* the readers an Unlock of the registry lets in
MgrLetIn(frames, t) == {u \in Callers \ {t} : frames[u].at = "rlock"}

\* Unlock of the book: the waiting readers are let in
BookUnlock(frames, t, f) ==
    [u \in Callers |->
        IF u = t THEN f
        ELSE IF frames[u].at = "book" /\ frames[u].kind = "depth"
        THEN [frames[u] EXCEPT !.at = "depth"]
        ELSE frames[u]]

\* the readers an Unlock of the book lets in
BookLetIn(frames, t) ==
    {u \in Callers \ {t} : frames[u].at = "book" /\ frames[u].kind = "depth"}

\* a goroutine calls SubmitOrder(order), CancelOrder(order) or GetBookDepth
\* (goroutines are interchangeable: the call is the first idle one's)
MgrCall(t, kind, order, id) ==
    /\ reg.frame[t].at = "idle"
    /\ \A u \in Callers : u < t => reg.frame[u].at # "idle"
    /\ kind = "add" => (issued < MaxConcOrders /\ order.ID = issued + 1 /\ id = 0)
    /\ kind # "add" => (order = NoOrder /\ id <= issued /\ (kind = "depth" <=> id = 0))
    /\ issued' = IF kind = "add" THEN issued + 1 ELSE issued
    /\ reg' = [reg EXCEPT !.frame[t] =
                [MgrIdle EXCEPT !.at = "rlock", !.kind = kind, !.order = order, !.id = id]]
    /\ UNCHANGED <<books, heap, last, concVars, db, tx, settle, resp>>

\* GetOrCreateBook: m.mu.RLock() returns
MgrRLock(t) ==
    /\ reg.frame[t].at = "rlock"
    /\ RLockEnter(reg.mu, RegWriters(reg.frame))
    /\ reg' = [reg EXCEPT !.mu.readers = @ \cup {t}, !.frame[t].at = "read"]
    /\ UNCHANGED <<seqVars, concVars, db, tx, settle, resp>>

\* GetOrCreateBook: book, exists := m.books[symbol]; m.mu.RUnlock();
\* if exists { return book }
MgrRUnlock(t) ==
    /\ reg.frame[t].at = "read"
    /\ reg' = [reg EXCEPT !.mu = RUnlock(@, t),
                          !.frame[t].exists = TheBook \in DOMAIN books,
                          !.frame[t].at = IF TheBook \in DOMAIN books THEN "book" ELSE "lock"]
    /\ UNCHANGED <<seqVars, concVars, db, tx, settle, resp>>

\* GetOrCreateBook: m.mu.Lock() returns
MgrLock(t) ==
    /\ reg.frame[t].at = "lock"
    /\ LockFree(reg.mu)
    /\ reg' = [reg EXCEPT !.mu.writer = t, !.frame[t].at = "locked"]
    /\ UNCHANGED <<seqVars, concVars, db, tx, settle, resp>>

\* GetOrCreateBook under the write lock: the second lookup, the creation,
\* the deferred Unlock and the return
MgrCreate(t) ==
    /\ reg.frame[t].at = "locked"
    /\ books' = GetOrCreateBook(books, TheBook)
    /\ reg' = [reg EXCEPT !.mu = [writer |-> 0, readers |-> MgrLetIn(reg.frame, t)],
                          !.frame = MgrUnlock(@, t, [reg.frame[t] EXCEPT !.at = "book"])]
    /\ UNCHANGED <<heap, issued, last, concVars, db, tx, settle, resp>>

\* the book's method: ob.mu.Lock() (AddOrder, CancelOrder) or ob.mu.RLock()
\* (GetDepth) returns
BookLock(t) ==
    LET f == reg.frame[t]
    IN  /\ f.at = "book"
        /\ IF f.kind = "depth"
           THEN /\ RLockEnter(mu, BookWriters(reg.frame))
                /\ mu' = [mu EXCEPT !.readers = @ \cup {t}]
           ELSE /\ LockFree(mu)
                /\ mu' = [mu EXCEPT !.writer = t]
        /\ reg' = [reg EXCEPT !.frame[t].at =
                        IF f.kind = "depth" THEN "depth"
                        ELSE IF f.kind = "add" THEN "check" ELSE "cancel"]
        /\ UNCHANGED <<seqVars, pc, frame, committed, db, tx, settle, resp>>

\* the deferred ob.mu.Unlock() and the return of a mutating call
BookReturn(t) ==
    /\ mu' = [writer |-> 0, readers |-> BookLetIn(reg.frame, t)]
    /\ reg' = [reg EXCEPT !.frame = BookUnlock(@, t, MgrIdle)]

\* AddOrder: the validation, then the order enters the index
BookCheck(t) ==
    LET f == reg.frame[t]
        b == books[TheBook]
    IN  /\ f.at = "check"
        /\ IF AddOrderCheck(b, f.order) # None
           THEN /\ BookReturn(t)
                /\ UNCHANGED <<books, heap>>
           ELSE /\ books' = [books EXCEPT ![TheBook] = IndexOrder(@, f.order)]
                /\ heap' = [heap EXCEPT ![f.order.ID] = Object(f.order)]
                /\ reg' = [reg EXCEPT !.frame[t].at = "match",
                                      !.frame[t].opp =
                                          Len(IF f.order.Side = "buy" THEN b.Asks ELSE b.Bids)]
                /\ UNCHANGED mu
        /\ UNCHANGED <<issued, last, pc, frame, committed, db, tx, settle, resp>>

\* the match frame of goroutine t over the book
MgrFrameOf(t) ==
    [b |-> books[TheBook], h |-> heap, i |-> reg.frame[t].i,
     trades |-> reg.frame[t].trades, brk |-> reg.frame[t].brk]

\* AddOrder: one iteration of matchOrder's loop
BookMatch(t) ==
    /\ reg.frame[t].at = "match"
    /\ MatchGuard(MgrFrameOf(t), reg.frame[t].order.ID)
    /\ LET m == MatchIter(MgrFrameOf(t), reg.frame[t].order.ID)
       IN  /\ books' = [books EXCEPT ![TheBook] = m.b]
           /\ heap' = m.h
           /\ reg' = [reg EXCEPT !.frame[t].i = m.i, !.frame[t].trades = m.trades,
                                 !.frame[t].brk = m.brk, !.frame[t].iters = @ + 1]
    /\ UNCHANGED <<issued, last, concVars, db, tx, settle, resp>>

\* AddOrder: the loop is over; the remainder rests and the call returns
BookRest(t) ==
    /\ reg.frame[t].at = "match"
    /\ ~MatchGuard(MgrFrameOf(t), reg.frame[t].order.ID)
    /\ LET nb == [books EXCEPT ![TheBook] =
                    RestRemainder(books[TheBook], heap, reg.frame[t].order.ID)]
       IN  /\ books' = nb
           /\ heap' = Collect(nb, heap)
    /\ BookReturn(t)
    /\ UNCHANGED <<issued, last, pc, frame, committed, db, tx, settle, resp>>

\* CancelOrder: the body under the lock, and the return
BookCancel(t) ==
    /\ reg.frame[t].at = "cancel"
    /\ LET nb == [books EXCEPT ![TheBook] =
                    CancelOrder(books[TheBook], heap, reg.frame[t].id).b]
       IN  /\ books' = nb
           /\ heap' = Collect(nb, heap)
    /\ BookReturn(t)
    /\ UNCHANGED <<issued, last, pc, frame, committed, db, tx, settle, resp>>

\* GetDepth: the body, the deferred ob.mu.RUnlock() and the return
BookDepth(t) ==
    /\ reg.frame[t].at = "depth"
    /\ mu' = RUnlock(mu, t)
    /\ reg' = [reg EXCEPT !.frame[t] = MgrIdle]
    /\ UNCHANGED <<seqVars, pc, frame, committed, db, tx, settle, resp>>

\* InitManager: no book, no goroutine inside a call
InitMgr ==
    /\ books = [s \in {} |-> NewOrderBook(s)]
    /\ heap = [id \in OrderIds |-> NoOrder]
    /\ issued = 0
    /\ last = NoCall
    /\ Quiet
    /\ committed = <<>>
    /\ reg = [NoReg EXCEPT !.frame = [t \in Callers |-> MgrIdle]]
    /\ db = NoDb
    /\ tx = NoTx
    /\ settle = NoSettle
    /\ resp = NoResp

\* a step inside goroutine t's call that waits for no lock
MgrStep(t) ==
    \/ MgrRUnlock(t)
    \/ MgrCreate(t)
    \/ BookCheck(t)
    \/ BookMatch(t)
    \/ BookRest(t)
    \/ BookCancel(t)
    \/ BookDepth(t)

NextMgr ==
    \/ \E t \in Callers, order \in MgrInputs(issued + 1) : MgrCall(t, "add", order, 0)
    \/ \E t \in Callers, id \in 1..issued : MgrCall(t, "cancel", NoOrder, id)
    \/ \E t \in Callers : MgrCall(t, "depth", NoOrder, 0)
    \/ \E t \in Callers : MgrRLock(t)
    \/ \E t \in Callers : MgrLock(t)
    \/ \E t \in Callers : BookLock(t)
    \/ \E t \in Callers : MgrStep(t)

\* The scheduler runs every goroutine that can take a step (weak fairness).
\* A Lock of the registry, once it is waiting, keeps readers out and can only
\* be overtaken by another waiting Lock, so weak fairness covers it too; a
\* goroutine waiting for the book's Lock can be overtaken again and again,
\* and gets the lock in the end because sync.Mutex hands it to a starving
\* waiter (strong fairness).
SpecMgr ==
    /\ InitMgr
    /\ [][NextMgr]_vars
    /\ \A t \in Callers :
          /\ WF_vars(MgrStep(t) \/ MgrRLock(t) \/ MgrLock(t))
          /\ SF_vars(BookLock(t))

\* ------------------------------------------------------------------ websocket hub
\* Hub.Run (one goroutine) and, per client, the endpoint handler and the
\* write and read pumps.  reg.clients: h.clients; reg.hub: where Run is (at
\* its select, or inside the broadcast's range with the clients still to
\* visit); reg.send[c]: client c's Send channel (messages buffered, how
\* often it was closed and by which case, whether a send hit it closed);
\* reg.handler, reg.write, reg.read: the positions of c's goroutines.  The
\* ticker may have a message on h.broadcast at any time; a write to or a read
\* from the connection may fail at any time.  A close of a closed channel or
\* a send on one panics: Run stops.
MaxClients == 2
SendCap == 1

Clients == 1..MaxClients

OpenChan == [len |-> 0, closes |-> 0, by |-> "none", sentClosed |-> FALSE]

NoHub == [clients |-> {}, hub |-> [at |-> "select", todo |-> {}],
          send |-> [c \in Clients |-> OpenChan],
          handler |-> [c \in Clients |-> "new"],
          write |-> [c \in Clients |-> "off"],
          read |-> [c \in Clients |-> "off"]]

hubOther == <<seqVars, concVars, db, tx, settle, resp>>

\* a close or a send has panicked
Panicked(r) == \E c \in Clients : r.send[c].closes > 1 \/ r.send[c].sentClosed

\* Run is at its select
AtSelect(r) == r.hub.at = "select" /\ ~Panicked(r)

\* (mutant) the Unregister case closes without looking the client up
InClientsAlways(clients, c) == TRUE

\* if _, ok := h.clients[client]; ok
InClients(clients, c) == c \in clients

\* close(client.Send)
Close(ch, by) == [ch EXCEPT !.closes = @ + 1, !.by = IF @ = "none" THEN by ELSE @]

\* PriceWSEndpoint: the client is made and handed to the hub, whose Register
\* case puts it into h.clients; then the handler starts the two pumps
HubRegister(c) ==
    /\ AtSelect(reg)
    /\ reg.handler[c] = "new"
    /\ reg' = [reg EXCEPT !.clients = @ \cup {c}, !.handler[c] = "done",
                          !.write[c] = "range", !.read[c] = "read"]
    /\ UNCHANGED hubOther

\* case client := <-h.Unregister, sent by one of c's pumps
HubUnregister(c, pump) ==
    /\ AtSelect(reg)
    /\ reg[pump][c] = "unregister"
    /\ reg' = [reg EXCEPT
                ![pump][c] = "done",
                !.clients = IF InClients(reg.clients, c) THEN @ \ {c} ELSE @,
                !.send[c] = IF InClients(reg.clients, c) THEN Close(@, "unregister") ELSE @]
    /\ UNCHANGED hubOther

\* case message := <-h.broadcast: the range over h.clients begins
HubBroadcast ==
    /\ AtSelect(reg)
    /\ reg' = [reg EXCEPT !.hub = [at |-> "range", todo |-> reg.clients]]
    /\ UNCHANGED hubOther

\* one iteration of the range: the message is put into c's Send if there is
\* room; otherwise the channel is closed and c is deleted from h.clients
HubSend(c) ==
    /\ reg.hub.at = "range"
    /\ ~Panicked(reg)
    /\ c \in reg.hub.todo
    /\ LET ch == reg.send[c]
       IN  reg' = [reg EXCEPT
                    !.hub.todo = @ \ {c},
                    !.send[c] = IF ch.closes > 0 THEN [ch EXCEPT !.sentClosed = TRUE]
                                ELSE IF ch.len < SendCap THEN [ch EXCEPT !.len = @ + 1]
                                ELSE Close(ch, "overflow"),
                    !.clients = IF ch.closes = 0 /\ ch.len >= SendCap THEN @ \ {c} ELSE @]
    /\ UNCHANGED hubOther

\* the range is over: back to the select
HubRangeEnd ==
    /\ reg.hub.at = "range"
    /\ ~Panicked(reg)
    /\ reg.hub.todo = {}
    /\ reg' = [reg EXCEPT !.hub.at = "select"]
    /\ UNCHANGED hubOther

\* clientWritePump: a message is received from Send and written to the
\* connection; when the write fails the pump goes to unregister the client
WritePump(c, fails) ==
    /\ reg.write[c] = "range"
    /\ reg.send[c].len > 0
    /\ reg' = [reg EXCEPT !.send[c].len = @ - 1,
                          !.write[c] = IF fails THEN "unregister" ELSE "range"]
    /\ UNCHANGED hubOther

\* clientWritePump: Send is closed and empty, the range loop ends
WritePumpEnd(c) ==
    /\ reg.write[c] = "range"
    /\ reg.send[c].len = 0
    /\ reg.send[c].closes > 0
    /\ reg' = [reg EXCEPT !.write[c] = "done"]
    /\ UNCHANGED hubOther

\* clientReadPump: ReadMessage returns an error, the deferred function goes
\* to unregister the client
ReadPumpFail(c) ==
    /\ reg.read[c] = "read"
    /\ reg' = [reg EXCEPT !.read[c] = "unregister"]
    /\ UNCHANGED hubOther

\* NewHub: no client
InitHub ==
    /\ books = [s \in {} |-> NewOrderBook(s)]
    /\ heap = [id \in OrderIds |-> NoOrder]
    /\ issued = 0
    /\ last = NoCall
    /\ Quiet
    /\ committed = <<>>
    /\ reg = NoHub
    /\ db = NoDb
    /\ tx = NoTx
    /\ settle = NoSettle
    /\ resp = NoResp

NextHub ==
    \/ \E c \in Clients : HubRegister(c)
    \/ \E c \in Clients, pump \in {"write", "read"} : HubUnregister(c, pump)
    \/ HubBroadcast
    \/ \E c \in Clients : HubSend(c)
    \/ HubRangeEnd
    \/ \E c \in Clients, fails \in BOOLEAN : WritePump(c, fails)
    \/ \E c \in Clients : WritePumpEnd(c)
    \/ \E c \in Clients : ReadPumpFail(c)

SpecHub == InitHub /\ [][NextHub]_vars

\* ------------------------------------------------------------------ reading a step
\* the canonical symbol of the last call, and the book that call acted on as it
\* was before the call (GetOrCreateBook resolved it)
CallSymbol(call) == ToUpper(call.arg.Symbol)
BookBefore(call) == GetOrCreateBook(books, call.arg.Symbol)[CallSymbol(call)]

\* ids are issued in arrival order: a came to the book before b
Earlier(a, b) == a < b

\* position of the first trade of `trades` whose maker is id (0: none)
MakerPos(trades, id) ==
    IF \E k \in 1..Len(trades) : trades[k].MakerOrderID = id
    THEN CHOOSE k \in 1..Len(trades) :
            /\ trades[k].MakerOrderID = id
            /\ \A j \in 1..(k - 1) : trades[j].MakerOrderID # id
    ELSE 0

SideOf(b, side) == IF side = "buy" THEN b.Bids ELSE b.Asks

\* how often id occurs in a sequence
Count(s, id) == Cardinality({k \in 1..Len(s) : s[k] = id})

\* ------------------------------------------------------------------ C1
\* C1: every trade an AddOrder produces is struck at the price of the resting
\* (maker) order it matched, whatever the incoming order's limit price is.
C1_TradeAtRestingPrice ==
    [][last'.op = "add" =>
        \A k \in 1..Len(last'.trades) :
            LET t == last'.trades[k]
            IN  /\ t.MakerOrderID \in Resting(books)
                /\ t.TakerOrderID = last'.arg.ID
                /\ t.Price = heap[t.MakerOrderID].Price]_vars

\* an add has just traded at a price that is not the incoming order's limit
C1_Witness ==
    /\ last.op = "add"
    /\ \E k \in 1..Len(last.trades) : last.trades[k].Price # last.arg.Price

\* ------------------------------------------------------------------ C2
\* C2: time priority. Of two orders resting on the same side at the same price,
\* the one that arrived later is the maker of a trade only after the earlier one
\* was the maker of a trade of the same AddOrder and has been filled completely.
C2_TimePriority ==
    [][last'.op = "add" =>
        \A s \in DOMAIN books : \A side \in Sides :
            \A a, b \in Range(SideOf(books[s], side)) :
                (/\ Earlier(a, b)
                 /\ heap[a].Price = heap[b].Price
                 /\ MakerPos(last'.trades, b) > 0)
                => /\ MakerPos(last'.trades, a) > 0
                   /\ MakerPos(last'.trades, a) < MakerPos(last'.trades, b)
                   /\ a \notin Resting(books')]_vars

\* ------------------------------------------------------------------ C3
\* bid A (id 1, price 100, 1.0 = 2 lots) then bid B (id 2, price 100, 2.0 = 4 lots)
\* rest alone in the book: only "add A, add B" from the empty book leads here
C3_TwoBidsResting ==
    /\ issued = 2
    /\ "BTC-USD" \in DOMAIN books
    /\ Range(books["BTC-USD"].Bids) = {1, 2}
    /\ books["BTC-USD"].Asks = <<>>
    /\ heap[1] = [ID |-> 1, Side |-> "buy", Price |-> 100, Quantity |-> 2]
    /\ heap[2] = [ID |-> 2, Side |-> "buy", Price |-> 100, Quantity |-> 4]

\* C3: the worked example. With A and B resting, the sell (price 99, 1.5 = 3 lots)
\* trades with A for 1.0 at 100, then with B for 0.5 at 100, and leaves B alone
\* in the book with 1.5.
C3_WorkedExample ==
    [][(/\ C3_TwoBidsResting
        /\ last'.op = "add"
        /\ last'.arg = [ID |-> 3, Symbol |-> "BTC-USD", Type |-> "limit",
                        Side |-> "sell", Price |-> 99, Quantity |-> 3])
       => /\ last'.trades =
                <<[TakerOrderID |-> 3, MakerOrderID |-> 1, Symbol |-> "BTC-USD",
                   Price |-> 100, Quantity |-> 2],
                  [TakerOrderID |-> 3, MakerOrderID |-> 2, Symbol |-> "BTC-USD",
                   Price |-> 100, Quantity |-> 1]>>
          /\ books'["BTC-USD"].Bids = <<2>>
          /\ books'["BTC-USD"].Asks = <<>>
          /\ heap'[2].Quantity = 3]_vars

\* ------------------------------------------------------------------ C4
\* C4: between calls, an id is in a book's index exactly when the order is in
\* exactly one of Bids and Asks, exactly once.
C4_IndexMatchesSides ==
    \A s \in DOMAIN books : \A id \in OrderIds :
        id \in books[s].Orders
        <=> Count(books[s].Bids, id) + Count(books[s].Asks, id) = 1

\* ------------------------------------------------------------------ C5
\* C5: Manager.CancelOrder of an order that is not resting in its book (filled
\* as maker, filled on arrival as taker, or cancelled before) returns not-found
\* and leaves the book as it was.
C5_CancelNotResting ==
    [][(/\ last'.op = "cancel"
        /\ last'.arg.ID <= issued
        /\ last'.arg.ID \notin Resting(books))
       => /\ last'.err = "not_found"
          /\ books'[CallSymbol(last')] = BookBefore(last')
          /\ heap' = heap]_vars

\* ------------------------------------------------------------------ C6
\* C6: CancelOrder with an id that was never added returns not-found and leaves
\* Bids, Asks, the index and so GetDepth's result as they were.
C6_CancelUnknown ==
    [][(last'.op = "cancel" /\ last'.arg.ID > issued)
       => /\ last'.err = "not_found"
          /\ last'.removed = NoOrder
          /\ books'[CallSymbol(last')] = BookBefore(last')
          /\ heap' = heap
          /\ GetDepth(books'[CallSymbol(last')], heap')
               = GetDepth(BookBefore(last'), heap)]_vars

\* a never-added id has just been cancelled on a book that holds resting orders
C6_Witness ==
    /\ last.op = "cancel"
    /\ last.arg.ID > issued
    /\ last.err = "not_found"
    /\ Resting(books) # {}

\* ------------------------------------------------------------------ C7
\* C7: CancelOrder of a resting order removes exactly that id from the index and
\* from its side, returns the order with the quantity it had, and leaves every
\* other order, its quantity and the sequence of the others untouched.
C7_CancelResting ==
    [][(last'.op = "cancel" /\ last'.arg.ID \in Resting([x \in {1} |-> BookBefore(last')]))
       => LET id == last'.arg.ID
              b  == BookBefore(last')
              nb == books'[CallSymbol(last')]
          IN  /\ last'.err = None
              /\ last'.removed = heap[id]
              /\ last'.removed.Quantity > 0
              /\ nb.Orders = b.Orders \ {id}
              /\ nb.Bids = SelectSeq(b.Bids, LAMBDA x : x # id)
              /\ nb.Asks = SelectSeq(b.Asks, LAMBDA x : x # id)
              /\ Len(nb.Bids) + Len(nb.Asks) = Len(b.Bids) + Len(b.Asks) - 1
              /\ \A o \in OrderIds \ {id} : heap'[o] = heap[o]]_vars

\* a resting order has just been cancelled from between two others on its side
C7_Witness ==
    /\ last.op = "cancel"
    /\ last.err = None
    /\ last.removed.Quantity > 0
    /\ \E s \in DOMAIN books :
         LET side == SideOf(books[s], last.removed.Side)
         IN  /\ Len(side) = 2
             /\ side[1] < last.removed.ID
             /\ last.removed.ID < side[2]

\* ------------------------------------------------------------------ C8
\* C8: AddOrder rejects an order whose symbol is not the book's, whose type is
\* not "limit" or whose id is in the index: an error, no trades, and the book
\* and every resting order's quantity as before.
C8_AddRejects ==
    [][(/\ last'.op = "add"
        /\ \/ last'.arg.Symbol # BookBefore(last').symbol
           \/ last'.arg.Type # "limit"
           \/ last'.arg.ID \in BookBefore(last').Orders)
       => /\ last'.err # None
          /\ last'.trades = <<>>
          /\ books'[CallSymbol(last')] = BookBefore(last')
          /\ heap' = heap]_vars

\* an order whose id rests in the book has just been rejected
C8_Witness ==
    /\ last.op = "add"
    /\ last.err = "already_exists"
    /\ last.arg.ID \in Resting(books)
    /\ Cardinality(Resting(books)) > 1

\* ------------------------------------------------------------------ C9
\* the sum of the quantities of the orders of a side at price p
RECURSIVE QtyAt(_, _, _)
QtyAt(ids, h, p) ==
    IF ids = {} THEN 0
    ELSE LET id == CHOOSE x \in ids : TRUE
         IN  (IF h[id].Price = p THEN h[id].Quantity ELSE 0) + QtyAt(ids \ {id}, h, p)

\* levels: one per distinct price of the side, each with the summed quantity
LevelsExact(levels, side, h) ==
    /\ {levels[k].Price : k \in 1..Len(levels)} = {h[id].Price : id \in Range(side)}
    /\ Len(levels) = Cardinality({h[id].Price : id \in Range(side)})
    /\ \A k \in 1..Len(levels) : levels[k].Quantity = QtyAt(Range(side), h, levels[k].Price)

\* C9: GetDepth gives one level per distinct resting price and side, with the
\* sum of the remaining quantities at that price; bid levels strictly descending,
\* ask levels strictly ascending.
C9_DepthAggregates ==
    last.op = "depth" =>
        LET b == books[CallSymbol(last)]
            d == last.depth
        IN  /\ d.Symbol = b.symbol
            /\ LevelsExact(d.Bids, b.Bids, heap)
            /\ LevelsExact(d.Asks, b.Asks, heap)
            /\ \A k \in 1..(Len(d.Bids) - 1) : d.Bids[k].Price > d.Bids[k + 1].Price
            /\ \A k \in 1..(Len(d.Asks) - 1) : d.Asks[k].Price < d.Asks[k + 1].Price

\* three bids at price 100 and none elsewhere, with 1, 2 and 2 lots: the single
\* bid level {100, 5}
C9_Witness ==
    /\ last.op = "depth"
    /\ last.depth.Bids = <<[Price |-> 100, Quantity |-> 5]>>
    /\ Len(books["BTC-USD"].Bids) = 3
    /\ {heap[id].Quantity : id \in Range(books["BTC-USD"].Bids)} = {1, 2}

\* ------------------------------------------------------------------ C10
\* C10: a GetDepth that runs while other goroutines add and cancel returns the
\* depth of the book as it stood between two complete mutating calls, at some
\* moment after GetDepth took its read lock: never a state from inside a match.
C10_DepthIsSnapshot ==
    \A t \in Threads :
        pc[t] = "depth_ret" =>
            \E c \in frame[t].seen : frame[t].depth = GetDepth(c.b, c.h)

\* some resting order of book b that the order would trade with
Crosses(b, h, order) ==
    \/ order.Side = "buy" /\ \E a \in Range(b.Asks) : order.Price >= h[a].Price
    \/ order.Side = "sell" /\ \E a \in Range(b.Bids) : order.Price <= h[a].Price

\* a GetDepth holds its result while another goroutine waits at the book's lock
\* inside AddOrder with an order that crosses a resting one
C10_Witness ==
    \E t, u \in Threads :
        /\ pc[t] = "depth_ret"
        /\ frame[t].depth.Bids # <<>>
        /\ frame[t].depth.Asks = <<>>
        /\ pc[u] = "add_lock"
        /\ Crosses(books[TheBook], heap, frame[u].order)

\* ------------------------------------------------------------------ C11
\* the step on which goroutine t returns from AddOrder / from CancelOrder
AddReturns(t) == pc[t] \in {"add_check", "add_match"} /\ pc'[t] = "idle"
CancelReturns(t) == pc[t] = "cancel" /\ pc'[t] = "idle"

\* C11: concurrent AddOrder and CancelOrder calls on one book are serialized.
\* Each call, when it returns, has produced the trades, error or removed order
\* and the book that the whole call, run alone, produces from the book the
\* previous completed mutating call left; so the calls in the order of their
\* returns are a sequential execution with the same results and final book.
C11_Serialized ==
    [][\A t \in Threads :
        /\ AddReturns(t) =>
              LET r == AddOrder(committed.b, committed.h, frame[t].order)
              IN  /\ books'[TheBook] = r.b
                  /\ heap' = Collect(books', r.h)
                  /\ frame[t].trades = r.trades
                  /\ (pc[t] = "add_check") <=> (r.err # None)
        /\ CancelReturns(t) =>
              LET r == CancelOrder(committed.b, committed.h, frame[t].id)
                  c == CancelOrder(books[TheBook], heap, frame[t].id)
              IN  /\ books'[TheBook] = r.b
                  /\ heap' = Collect(books', committed.h)
                  /\ c.removed = r.removed
                  /\ c.err = r.err]_vars

\* a cancel of a resting order waits for the lock while an AddOrder that crosses
\* that order has traded with it and left part of it resting
C11_Witness ==
    \E t, u \in Threads :
        /\ pc[t] = "cancel_lock"
        /\ pc[u] = "add_match"
        /\ frame[u].trades # <<>>
        /\ frame[u].trades[1].MakerOrderID = frame[t].id
        /\ frame[t].id \in Resting(books)
        /\ heap[frame[t].id].Quantity > 0

\* ------------------------------------------------------------------ C12
\* C12: GetOrCreateBook makes at most one OrderBook per canonical symbol under
\* every interleaving: a symbol that is mapped stays mapped to the same
\* instance, every instance made is the one stored for its symbol, and every
\* call for a symbol (in any letter case) returned that stored instance.
C12_OneBookPerSymbol ==
    [][/\ \A s \in DOMAIN reg.books :
            s \in DOMAIN reg'.books /\ reg'.books[s] = reg.books[s]
       /\ reg'.made = Cardinality(DOMAIN reg'.books)
       /\ \A g \in reg'.given :
            g[1] \in DOMAIN reg'.books /\ g[2] = reg'.books[g[1]]]_vars

\* two goroutines both missed the symbol on their first lookup; one has made
\* the book and returned it, the other is now under the write lock
C12_Witness ==
    \E t \in Threads :
        /\ reg.frame[t].at = "locked"
        /\ reg.frame[t].symbol \in DOMAIN reg.books
        /\ <<reg.frame[t].symbol, reg.books[reg.frame[t].symbol]>> \in reg.given

\* ------------------------------------------------------------------ C18
\* C18: LockFunds succeeds exactly when amount > 0, the row exists and
\* available >= amount, and then moves amount from available to locked; in
\* every other case it returns an error and the balances are as before.
C18_LockFunds ==
    [][resp'.op = "lock" =>
        LET k   == <<resp'.user, resp'.asset>>
            a   == resp'.amount
            old == resp'.before
            new == db'.balances
            ok  == a > 0 /\ k \in DOMAIN old /\ old[k].available >= a
        IN  /\ old = db.balances
            /\ (resp'.err = None) <=> ok
            /\ ok => /\ DOMAIN new = DOMAIN old
                      /\ new[k].available = old[k].available - a
                      /\ new[k].locked = old[k].locked + a
                      /\ \A j \in DOMAIN old \ {k} : new[j] = old[j]
            /\ ~ok => new = old]_vars

\* a lock of exactly the available amount has just succeeded on a balance
\* that already had funds locked
C18_Witness ==
    /\ resp.op = "lock"
    /\ resp.err = None
    /\ resp.before[<<resp.user, resp.asset>>].available = resp.amount
    /\ resp.before[<<resp.user, resp.asset>>].locked > 0
    /\ db.balances[<<resp.user, resp.asset>>].available = 0

\* ------------------------------------------------------------------ C20
\* C20: UnlockFunds succeeds exactly when amount > 0, the row exists and
\* locked >= amount, and then moves amount from locked to available; otherwise
\* it fails and the balances are as before.  An UnlockFunds(a) right after a
\* successful LockFunds(a) on the same balance succeeds and restores the
\* balances from before the lock.
C20_UnlockInverse ==
    [][resp'.op = "unlock" =>
        LET k   == <<resp'.user, resp'.asset>>
            a   == resp'.amount
            old == resp'.before
            new == db'.balances
            ok  == a > 0 /\ k \in DOMAIN old /\ old[k].locked >= a
        IN  /\ old = db.balances
            /\ (resp'.err = None) <=> ok
            /\ ok => /\ DOMAIN new = DOMAIN old
                      /\ new[k].available = old[k].available + a
                      /\ new[k].locked = old[k].locked - a
                      /\ \A j \in DOMAIN old \ {k} : new[j] = old[j]
            /\ ~ok => new = old
            /\ (/\ resp.op = "lock"
                /\ resp.err = None
                /\ <<resp.user, resp.asset>> = k
                /\ resp.amount = a)
               => resp'.err = None /\ new = resp.before]_vars

\* an unlock has just undone the successful lock before it: the balance had
\* nothing locked before the lock, and the lock took all that was available
C20_Witness ==
    /\ resp.op = "unlock"
    /\ resp.err = None
    /\ resp.prev.op = "lock"
    /\ resp.prev.err = None
    /\ resp.prev.amount = resp.amount
    /\ <<resp.prev.user, resp.prev.asset>> = <<resp.user, resp.asset>>
    /\ resp.prev.before[<<resp.user, resp.asset>>] = [available |-> resp.amount, locked |-> 0]
    /\ db.balances = resp.prev.before

\* ------------------------------------------------------------------ C19
RECURSIVE SumSeq(_)
SumSeq(q) == IF q = <<>> THEN 0 ELSE Head(q) + SumSeq(Tail(q))

\* C19: concurrent LockFunds calls on one balance, each in its own
\* transaction, never lock more than was available: the committed locks total
\* at most the initial available amount, the row reflects exactly those locks,
\* and available is never negative.
C19_NoDoubleLock ==
    /\ SumSeq(tx.won) <= tx.initial.available
    /\ db.balances[TheRow].available = tx.initial.available - SumSeq(tx.won)
    /\ db.balances[TheRow].locked = tx.initial.locked + SumSeq(tx.won)
    /\ db.balances[TheRow].available >= 0

\* two requests began before either lock committed, each with an amount that
\* fitted the available funds and together more than them; one has committed
\* and the other's LockFunds has failed
C19_Witness ==
    \E u \in Threads :
        /\ Len(tx.won) = 1
        /\ tx.frame[u].at = "rollback"
        /\ tx.frame[u].began = 0
        /\ tx.frame[u].err = "insufficient_funds"
        /\ tx.frame[u].amount <= tx.initial.available
        /\ tx.won[1] <= tx.initial.available
        /\ tx.won[1] + tx.frame[u].amount > tx.initial.available

\* ------------------------------------------------------------------ C13
\* C13: between requests, for every order record these coincide: its status
\* is open or partially filled, it has quantity left, and it rests in some
\* book.  Read in the claim's favour: stated for limit orders, with no
\* settlement running, and asking nothing of the quantity field of a
\* cancelled record.
C13_OrderState ==
    settle.jobs = {} =>
        \A id \in DOMAIN db.orders :
            LET o    == db.orders[id]
                live == o.Status \in {"open", "partially_filled"}
            IN  o.Type = "limit" =>
                    /\ live <=> (id \in Resting(books))
                    /\ live => o.Quantity > 0
                    /\ o.Status = "filled" => o.Quantity = 0

\* ------------------------------------------------------------------ C14
\* the orders that are or were in the matching engine: resting, or in a trade
Engaged ==
    Resting(books)
    \cup {tr.MakerOrderID : tr \in settle.emitted}
    \cup {tr.TakerOrderID : tr \in settle.emitted}

\* C14: every order that rests in a book or is named in a trade has a
\* committed order record, and a LockFunds for its owner succeeded and
\* committed with that record: price * quantity of the quote asset for a buy,
\* quantity of the base asset for a sell.
C14_SubmittedAfterCommit ==
    \A id \in Engaged :
        /\ id \in DOMAIN db.orders
        /\ id \in 1..Len(tx.locks)
        /\ LET o == db.orders[id]
           IN  tx.locks[id] =
                 [ok |-> TRUE, user |-> o.UserID,
                  asset |-> IF o.Side = "buy" THEN "USD" ELSE "BTC",
                  amount |-> IF o.Side = "buy" THEN o.Price * o.Quantity ELSE o.Quantity]

\* a buy and a sell rest in the book, and another request has been refused
\* for insufficient funds
C14_Witness ==
    /\ resp.op = "create"
    /\ resp.code = 400
    /\ "BTC-USD" \in DOMAIN books
    /\ books["BTC-USD"].Bids # <<>>
    /\ books["BTC-USD"].Asks # <<>>

\* ------------------------------------------------------------------ C15
\* the goroutines that still have trade tr before them
Pending(st, tr) ==
    {j \in st.jobs : \E k \in j.i..Len(j.trades) : j.trades[k] = tr}

Locked(bal, user, asset) ==
    IF <<user, asset>> \in DOMAIN bal THEN bal[<<user, asset>>].locked ELSE 0
Available(bal, user, asset) ==
    IF <<user, asset>> \in DOMAIN bal THEN bal[<<user, asset>>].available ELSE 0

\* the record of order id shows a fill of q
Filled(id, q) ==
    /\ db'.orders[id].Quantity = db.orders[id].Quantity - q
    /\ db'.orders[id].Status =
         IF db'.orders[id].Quantity = 0 THEN "filled" ELSE "partially_filled"

\* C16: when the settlement of a trade completes, the records of its maker and
\* its taker carry the reduced quantity and the status that goes with it, and
\* the ledger has moved price * quantity of the quote asset from the buyer's
\* locked to the seller's available funds and quantity of the base asset from
\* the seller's locked to the buyer's available funds, the buyer being the
\* owner of the buy order of the two.
C16_SettlementApplied ==
    [][\A tr \in settle'.emitted :
        Done(settle', tr) > Done(settle, tr) =>
          LET mk     == db.orders[tr.MakerOrderID]
              tk     == db.orders[tr.TakerOrderID]
              buyer  == IF mk.Side = "buy" THEN mk.UserID ELSE tk.UserID
              seller == IF mk.Side = "buy" THEN tk.UserID ELSE mk.UserID
              quote  == tr.Price * tr.Quantity
          IN  /\ Filled(tr.MakerOrderID, tr.Quantity)
              /\ Filled(tr.TakerOrderID, tr.Quantity)
              /\ Locked(db'.balances, buyer, "USD") = Locked(db.balances, buyer, "USD") - quote
              /\ Available(db'.balances, seller, "USD")
                   = Available(db.balances, seller, "USD") + quote
              /\ Locked(db'.balances, seller, "BTC")
                   = Locked(db.balances, seller, "BTC") - tr.Quantity
              /\ Available(db'.balances, buyer, "BTC")
                   = Available(db.balances, buyer, "BTC") + tr.Quantity]_vars

\* ------------------------------------------------------------------ C17
\* the funds the resting orders of a user need in an asset
RECURSIVE Needed(_, _, _)
Needed(ids, user, asset) ==
    IF ids = {} THEN 0
    ELSE LET id == CHOOSE x \in ids : TRUE
             o  == db.orders[id]
             n  == IF o.UserID # user THEN 0
                   ELSE IF o.Side = "buy" /\ asset = "USD" THEN o.Price * heap[id].Quantity
                   ELSE IF o.Side = "sell" /\ asset = "BTC" THEN heap[id].Quantity
                   ELSE 0
         IN  n + Needed(ids \ {id}, user, asset)

\* C17: with no request and no settlement in flight, the locked amount of
\* every (user, asset) is what that user's resting orders need: price *
\* remaining quantity of the resting buys, remaining quantity of the resting
\* sells.  Stated for histories of limit orders only.
C17_LockedMatchesBook ==
    (/\ settle.jobs = {}
     /\ \A id \in DOMAIN db.orders : db.orders[id].Type = "limit")
    => \A user \in Users, asset \in Assets :
            Locked(db.balances, user, asset) = Needed(Resting(books), user, asset)

\* ------------------------------------------------------------------ C27
\* the remaining quantity of an order object, 0 once the book has dropped it
QtyOf(h, id) == IF h[id].ID = 0 THEN 0 ELSE h[id].Quantity

\* the total quantity of the trades
TradedQty(trades) == SumSeq([k \in 1..Len(trades) |-> trades[k].Quantity])

\* the quantity the trades before the k-th took from maker id
TradedBefore(trades, k, id) ==
    SumSeq([j \in 1..(k - 1) |->
                IF trades[j].MakerOrderID = id THEN trades[j].Quantity ELSE 0])

\* the quantity all the trades took from maker id
TradedFrom(trades, id) == TradedBefore(trades, Len(trades) + 1, id)

\* C27: quantity accounting of one AddOrder.  Each trade's quantity is the
\* smaller of what the incoming and the resting order have left at that
\* moment, and is > 0; the trades' quantities add up to what the incoming
\* order lost and each matched resting order lost what the trades took from
\* it; no remaining quantity is negative.
C27_QuantityAccounting ==
    [][(last'.op = "add" /\ last'.err = None) =>
        LET trades == last'.trades
            inc    == last'.arg
        IN  /\ \A k \in 1..Len(trades) :
                  LET t    == trades[k]
                      left == inc.Quantity - TradedQty(SubSeq(trades, 1, k - 1))
                      rest == heap[t.MakerOrderID].Quantity
                                  - TradedBefore(trades, k, t.MakerOrderID)
                  IN  /\ t.Quantity > 0
                      /\ t.Quantity <= left /\ t.Quantity <= rest
                      /\ t.Quantity = left \/ t.Quantity = rest
            /\ TradedQty(trades) = inc.Quantity - QtyOf(heap', inc.ID)
            /\ \A id \in Resting(books) :
                  TradedFrom(trades, id) = heap[id].Quantity - QtyOf(heap', id)
            /\ \A id \in OrderIds : QtyOf(heap', id) >= 0]_vars

\* an add has just traded with two resting orders, filling the first and
\* leaving a remainder on the second
C27_Witness ==
    /\ last.op = "add"
    /\ Len(last.trades) = 2
    /\ QtyOf(heap, last.trades[2].MakerOrderID) > 0
    /\ QtyOf(heap, last.arg.ID) = 0

\* ------------------------------------------------------------------ C28
\* C28: the book is never crossed between calls: every resting bid's price is
\* strictly below every resting ask's price.
C28_NotCrossed ==
    \A s \in DOMAIN books :
        \A bid \in Range(books[s].Bids), ask \in Range(books[s].Asks) :
            heap[bid].Price < heap[ask].Price

\* an add has just traded and come to rest with its remainder, next to
\* orders resting on both sides
C28_Witness ==
    /\ last.op = "add"
    /\ Len(last.trades) > 0
    /\ last.arg.ID \in Resting(books)
    /\ \E s \in DOMAIN books : books[s].Bids # <<>> /\ books[s].Asks # <<>>

\* ------------------------------------------------------------------ C29
\* C29: between calls Bids is in non-increasing and Asks in non-decreasing
\* price order.
C29_SidesSorted ==
    \A s \in DOMAIN books :
        /\ \A k \in 1..(Len(books[s].Bids) - 1) :
              heap[books[s].Bids[k]].Price >= heap[books[s].Bids[k + 1]].Price
        /\ \A k \in 1..(Len(books[s].Asks) - 1) :
              heap[books[s].Asks[k]].Price <= heap[books[s].Asks[k + 1]].Price

\* a side holds three orders at two prices, the cheaper bid having arrived
\* before a dearer one
C29_Witness ==
    \E s \in DOMAIN books :
        /\ Len(books[s].Bids) = 3
        /\ heap[books[s].Bids[1]].Price > heap[books[s].Bids[3]].Price
        /\ \E k \in 2..3 : Earlier(books[s].Bids[k], books[s].Bids[1])

\* ------------------------------------------------------------------ C30
\* price a is better than price b for a taker of the given side
Better(side, a, b) == IF side = "buy" THEN a < b ELSE a > b

\* C30: price priority within one AddOrder.  The trades' prices never get
\* better from one trade to the next (non-decreasing for a buy taker,
\* non-increasing for a sell taker), and when a resting order trades, every
\* opposing resting order at a better price has already been filled
\* completely by the earlier trades of the call.
C30_PricePriority ==
    [][(last'.op = "add" /\ last'.err = None) =>
        LET trades == last'.trades
            inc    == last'.arg
            s      == ToUpper(inc.Symbol)
            opp    == IF s \in DOMAIN books
                      THEN Range(SideOf(books[s], IF inc.Side = "buy" THEN "sell" ELSE "buy"))
                      ELSE {}
        IN  /\ \A k \in 1..(Len(trades) - 1) :
                  ~Better(inc.Side, trades[k + 1].Price, trades[k].Price)
            /\ \A k \in 1..Len(trades) : \A o \in opp :
                  Better(inc.Side, heap[o].Price, heap[trades[k].MakerOrderID].Price)
                      => TradedBefore(trades, k, o) = heap[o].Quantity]_vars

\* an add has just traded at two different prices
C30_Witness ==
    /\ last.op = "add"
    /\ Len(last.trades) >= 2
    /\ last.trades[1].Price # last.trades[2].Price

\* ------------------------------------------------------------------ C26
\* C26: an error the order book raises for a request is surfaced to that
\* request's caller: a create request answered 201 had its order accepted by
\* Manager.SubmitOrder, and a cancel request answered 200 had its order found
\* and removed by Manager.CancelOrder.
C26_BookErrorsSurfaced ==
    /\ (resp.op = "create" /\ resp.code = 201) => (last.op = "add" /\ last.err = None)
    /\ (resp.op = "cancel" /\ resp.code = 200) => (last.op = "cancel" /\ last.err = None)

\* ------------------------------------------------------------------ C25
\* the statuses an order record may move to from status a
Forward(a) ==
    IF a = "open" THEN {"open", "partially_filled", "filled", "cancelled"}
    ELSE IF a = "partially_filled" THEN {"partially_filled", "filled", "cancelled"}
    ELSE {a}

Funds(bal, user, asset) ==
    IF HasRow(bal, user, asset)
    THEN bal[<<user, asset>>].available + bal[<<user, asset>>].locked
    ELSE 0

\* available + locked of an asset over all users
RECURSIVE TotalFunds(_, _, _)
TotalFunds(bal, users, asset) ==
    IF users = {} THEN 0
    ELSE LET u == CHOOSE x \in users : TRUE
         IN  Funds(bal, u, asset) + TotalFunds(bal, users \ {u}, asset)

\* C21: funds conservation.  Every LockFunds and UnlockFunds, successful or
\* not, leaves available + locked of every balance as it was, and in every
\* committed state the total of available + locked over all users is, for
\* each asset, what it was at the start: fills only move value between the
\* buyer and the seller.
C21_FundsConserved ==
    [][/\ (tx.frame.open /\ tx'.frame.open /\ resp'.op \in {"lock", "unlock"})
            => \A user \in Users, asset \in Assets :
                  Funds(tx'.frame.bal, user, asset) = Funds(tx.frame.bal, user, asset)
       /\ \A asset \in Assets :
            TotalFunds(db'.balances, Users, asset) = TotalFunds(tx.initial, Users, asset)]_vars

\* ------------------------------------------------------------------ C22
\* how many committed legs are the given side of fill f
LegsWon(f, side) ==
    Cardinality({k \in 1..Len(tx.won) : tx.won[k] = [fill |-> f, side |-> side]})

\* C22: a fill is applied to both users or to neither: in every committed
\* state each fill has as many buyer's sides applied as seller's sides.
C22_FillAllOrNothing ==
    \A f \in Fills : LegsWon(f, "buy") = LegsWon(f, "sell")

\* ------------------------------------------------------------------ C23
\* every row of the balances has available >= 0 and locked >= 0
NonNegative(bal) ==
    \A key \in DOMAIN bal : bal[key].available >= 0 /\ bal[key].locked >= 0

ByGetOrCreate == resp'.op # "credit"

\* C24: GetOrCreateBalance under concurrent first creation.  No step of a
\* call changes the amounts of a row that exists; a row a call creates has
\* available = 0 and locked = 0; the credits of a concurrent writer are never
\* lost; the statement that decides a call's result gives it the row as it
\* then is; and when a call has returned (and its transaction, if any, has
\* committed) the row exists.
C24_GetOrCreate ==
    [][/\ (ByGetOrCreate /\ TheRow \in DOMAIN db.balances)
            => /\ TheRow \in DOMAIN db'.balances
               /\ db'.balances[TheRow] = db.balances[TheRow]
       /\ (ByGetOrCreate /\ TheRow \notin DOMAIN db.balances /\ TheRow \in DOMAIN db'.balances)
            => db'.balances[TheRow] = ZeroBalance
       /\ TheRow \in DOMAIN db'.balances
            => db'.balances[TheRow].available =
                  SumSeq(tx'.won) + (IF TheRow \in DOMAIN tx.initial
                                     THEN tx.initial[TheRow].available ELSE 0)
       /\ \A t \in Threads :
            (tx.frame[t].at # "done" /\ tx'.frame[t].at = "done")
                => LET view == IF tx'.frame[t].new
                               THEN (TheRow :> ZeroBalance) @@ db'.balances
                               ELSE db'.balances
                   IN  /\ TheRow \in DOMAIN view
                       /\ tx'.frame[t].ret = <<view[TheRow]>>
       /\ resp'.op = "return" => TheRow \in DOMAIN db'.balances]_vars

\* a call that found no row has met, at its INSERT, the row a concurrent
\* writer had created in between, and has just re-fetched that row with the
\* writer's funds in it, while another call is still under way
C24_Witness ==
    /\ resp.op = "refetch"
    /\ TheRow \notin DOMAIN tx.initial
    /\ tx.frame[resp.t].ret # <<>>
    /\ tx.frame[resp.t].ret[1].available > 0
    /\ \E t \in Threads \ {resp.t} : tx.frame[t].at \in {"insert", "refetch", "done"}

\* ------------------------------------------------------------------ C31
\* the ids of s that also occur in t, in the order s holds them
Common(s, t) == SelectSeq(s, LAMBDA x : x \in Range(t))

\* C31: a resting order that an AddOrder fills only partially keeps its place
\* in its side's sequence relative to every other resting order; of the
\* order only the remaining quantity changes, by what the trades took.
C31_PartialKeepsPlace ==
    [][(last'.op = "add" /\ last'.err = None) =>
        LET b  == BookBefore(last')
            nb == books'[CallSymbol(last')]
        IN  \A id \in Resting(books) :
                (TradedFrom(last'.trades, id) > 0 /\ QtyOf(heap', id) > 0) =>
                    /\ heap'[id] = [heap[id] EXCEPT
                            !.Quantity = @ - TradedFrom(last'.trades, id)]
                    /\ \A side \in Sides :
                          LET s  == SideOf(b, side)
                              ns == SideOf(nb, side)
                          IN  /\ Count(ns, id) = Count(s, id)
                              /\ Common(s, ns) = Common(ns, s)]_vars

\* an add has just taken part of the order at the head of a side, which
\* still rests there ahead of another order
C31_Witness ==
    /\ last.op = "add"
    /\ Len(last.trades) > 0
    /\ \E s \in DOMAIN books, side \in Sides :
          LET q == SideOf(books[s], side)
          IN  /\ Len(q) >= 2
              /\ q[1] = last.trades[Len(last.trades)].MakerOrderID
              /\ heap[q[1]].Quantity > 0

\* ------------------------------------------------------------------ C32
\* C32: between calls every order on a side of a book has a remaining
\* quantity above zero: a resting order that an AddOrder takes down to zero
\* has left its side and the id index when that call returns, and the
\* incoming order rests only with a remainder above zero.
C32_RestingPositive ==
    [][/\ \A id \in Resting(books') : heap'[id].Quantity > 0
       /\ (last'.op = "add" /\ last'.err = None) =>
            /\ \A id \in Resting(books) :
                  TradedFrom(last'.trades, id) = heap[id].Quantity =>
                      /\ id \notin Resting(books')
                      /\ id \notin Indexed(books')
            /\ last'.arg.ID \in Resting(books') <=>
                  TradedQty(last'.trades) < last'.arg.Quantity]_vars

\* an add has just been filled completely by taking a resting order down to
\* zero: neither rests, and another order still does
C32_Witness ==
    /\ last.op = "add"
    /\ Len(last.trades) = 1
    /\ TradedQty(last.trades) = last.arg.Quantity
    /\ last.trades[1].MakerOrderID \notin Resting(books)
    /\ last.arg.ID \notin Resting(books)
    /\ Resting(books) # {}

\* ------------------------------------------------------------------ C33
\* the ids a book points to
Held(b) == b.Orders \cup Range(b.Bids) \cup Range(b.Asks)

\* C33: the books of different symbols are independent.  A call for one
\* symbol leaves every other symbol's book, and the orders it holds, exactly
\* as they were; the makers of its trades rested in the book of the call's
\* symbol, the trades carry that symbol, and a cancel removes an order only
\* from the book of the symbol it names.
C33_BooksIndependent ==
    [][last'.op \in {"add", "cancel", "depth"} =>
        LET s == CallSymbol(last')
            b == BookBefore(last')
        IN  /\ \A o \in DOMAIN books \ {s} :
                  /\ o \in DOMAIN books'
                  /\ books'[o] = books[o]
                  /\ \A id \in Held(books[o]) : heap'[id] = heap[id]
            /\ \A k \in 1..Len(last'.trades) :
                  /\ last'.trades[k].MakerOrderID \in Range(b.Bids) \cup Range(b.Asks)
                  /\ last'.trades[k].Symbol = s
            /\ (last'.op = "cancel" /\ last'.err = None) =>
                  /\ last'.arg.ID \in Held(b)
                  /\ last'.arg.ID \notin Referenced(books')]_vars

\* an add has just traded with a resting order of its own symbol while an
\* earlier order that its price crosses rests on the opposing side of the
\* other symbol's book
C33_Witness ==
    /\ last.op = "add"
    /\ Len(last.trades) > 0
    /\ \E o \in DOMAIN books \ {CallSymbol(last)} :
          \E id \in Range(SideOf(books[o], IF last.arg.Side = "buy" THEN "sell" ELSE "buy")) :
              /\ Earlier(id, last.trades[1].MakerOrderID)
              /\ heap[id].Price = last.arg.Price

\* ------------------------------------------------------------------ C34
\* what the committed open orders of a user lock of an asset
LockedByOpen(orders, user, asset) ==
    SumSeq([id \in 1..issued |->
                IF /\ id \in DOMAIN orders
                   /\ orders[id].UserID = user
                   /\ orders[id].Status = "open"
                   /\ FundsAsset(orders[id]) = asset
                THEN FundsAmount(orders[id]) ELSE 0])

\* the locked part of a balance, 0 without a row
LockedOf(bal, user, asset) ==
    IF HasRow(bal, user, asset) THEN bal[<<user, asset>>].locked ELSE 0

\* handler h's request, under way at one of the steps `ats`, ends in this step
Ends(h, op, ats) ==
    /\ tx.frame[h].op = op
    /\ tx.frame[h].at \in ats
    /\ tx'.frame[h].at = "idle"

\* C34: creating an order is atomic with respect to the ledger.  A create
\* request that fails (LockFunds refuses, the insert fails, or the commit
\* fails after the funds were locked) leaves the committed balances and
\* order records as they were and the book untouched; in every state the
\* committed locked amount of each balance is what the committed open
\* orders lock, and every order the book points to has a committed record.
C34_CreateAtomic ==
    [][/\ \A h \in Handlers :
            ((resp' # resp /\ resp'.op = "create" /\ resp'.code # 201)
                \/ Ends(h, "create", {"insert", "commit"}))
                => /\ db' = db
                   /\ books' = books
                   /\ heap' = heap
       /\ \A user \in Users, asset \in Assets :
            LockedOf(db'.balances, user, asset) = LockedByOpen(db'.orders, user, asset)
       /\ \A id \in Referenced(books') : id \in DOMAIN db'.orders]_vars

\* a create request has just failed at its commit, after its funds were
\* locked and its record inserted: no record of it is committed, the book
\* does not know it, and its user's balances lock nothing
C34_Witness ==
    /\ resp.op = "create"
    /\ resp.code = 500
    /\ resp.at = "commit"
    /\ resp.id \notin DOMAIN db.orders
    /\ resp.id \notin Referenced(books)
    /\ \A user \in Users, asset \in Assets : LockedOf(db.balances, user, asset) = 0
    /\ \A h \in Handlers : tx.frame[h].at = "idle"

CancelSettled(d, frames, id) ==
    /\ id \in DOMAIN d.orders
    /\ d.orders[id].Status = "cancelled"
    /\ \A h \in Handlers : ~(frames[h].op = "cancel" /\ frames[h].id = id)

\* the committed status of order id is cancelled
IsCancelled(d, id) ==
    IF id \in DOMAIN d.orders THEN d.orders[id].Status = "cancelled" ELSE FALSE

\* C36: under every interleaving of create, cancel and crossing orders, an
\* order whose cancellation is committed (status cancelled, funds unlocked)
\* takes part in no later trade, as maker or as taker, and once its cancel
\* request has returned it rests in no book.
C36_CancelledStaysOut ==
    [][/\ \A h \in Handlers :
            (tx.frame[h].at = "submit" /\ tx'.frame[h].at = "idle") =>
                \A k \in 1..Len(last'.trades) :
                    /\ ~IsCancelled(db, last'.trades[k].MakerOrderID)
                    /\ ~IsCancelled(db, last'.trades[k].TakerOrderID)
       /\ \A id \in Resting(books') : ~CancelSettled(db', tx'.frame, id)]_vars

\* ------------------------------------------------------------------ C37
\* the available part of a balance, 0 without a row
AvailableOf(bal, user, asset) ==
    IF HasRow(bal, user, asset) THEN bal[<<user, asset>>].available ELSE 0

\* C37: of the cancel requests for one order, concurrent or repeated, at
\* most one succeeds, and the order's funds are unlocked exactly once: each
\* committed cancellation moves exactly the order's amount from locked to
\* available, no order's cancellation is committed twice, and a cancel that
\* fails as not cancellable or not found changes no balance and no record.
C37_CancelOnce ==
    [][/\ \A i, j \in 1..Len(tx'.won) : tx'.won[i] = tx'.won[j] => i = j
       /\ \A h \in Handlers :
            (tx.frame[h].op = "cancel" /\ tx.frame[h].at = "commit"
                /\ tx'.frame[h].at = "notify") =>
                LET o == db.orders[tx.frame[h].id]
                IN  /\ o.Status = "open"
                    /\ db'.orders[tx.frame[h].id].Status = "cancelled"
                    /\ \A user \in Users, asset \in Assets :
                          LET amount == IF <<user, asset>> = <<o.UserID, FundsAsset(o)>>
                                        THEN FundsAmount(o) ELSE 0
                          IN  /\ LockedOf(db'.balances, user, asset)
                                    = LockedOf(db.balances, user, asset) - amount
                              /\ AvailableOf(db'.balances, user, asset)
                                    = AvailableOf(db.balances, user, asset) + amount
       /\ (resp' # resp /\ resp'.op = "cancel" /\ resp'.code \in {400, 404}) =>
            /\ db' = db
            /\ tx'.won = tx.won]_vars

\* a second cancel of an order has just been refused as not cancellable
\* while the first, whose cancellation is committed, has not yet returned
C37_Witness ==
    /\ resp.op = "cancel"
    /\ resp.code = 400
    /\ resp.id \in Range(tx.won)
    /\ \E h \in Handlers :
          /\ tx.frame[h].op = "cancel"
          /\ tx.frame[h].id = resp.id
          /\ tx.frame[h].at = "notify"

\* ------------------------------------------------------------------ C38
\* C38: a market buy is refused (501) without any effect: no balance or
\* record changes, no id is used and the book is not touched; and no order
\* other than a limit order ever rests in a book or takes part in a trade.
C38_LimitOnly ==
    [][/\ (resp' # resp /\ resp'.op = "create"
              /\ resp'.arg.Type = "market" /\ resp'.arg.Side = "buy") =>
            /\ resp'.code = 501
            /\ UNCHANGED <<db, tx, settle, books, heap, issued, last>>
       /\ \A id \in Resting(books') : db'.orders[id].Type = "limit"
       /\ \A tr \in settle'.emitted :
            /\ db'.orders[tr.MakerOrderID].Type = "limit"
            /\ db'.orders[tr.TakerOrderID].Type = "limit"]_vars

\* a market buy has just been refused while a bid rests in the book, after
\* a market sell that the book turned away although that bid would have
\* matched it
C38_Witness ==
    /\ resp.op = "create"
    /\ resp.code = 501
    /\ \E id \in DOMAIN db.orders :
          /\ db.orders[id].Type = "market"
          /\ id \notin Referenced(books)
    /\ \E s \in DOMAIN books : books[s].Bids # <<>>

\* ------------------------------------------------------------------ C39
\* goroutine t holds the registry's lock / the book's lock
HoldsRegistry(t) == reg.mu.writer = t \/ t \in reg.mu.readers
HoldsBook(t) == mu.writer = t \/ t \in mu.readers

\* no goroutine holds, or is about to take, the book's lock while it holds
\* the registry's lock; the match loop has made at most one iteration per
\* order that rested on the opposing side when it began
C39_Safe ==
    \A t \in Callers :
        /\ (HoldsBook(t) \/ reg.frame[t].at = "book") => ~HoldsRegistry(t)
        /\ reg.frame[t].iters <= reg.frame[t].opp

\* C39: under fair scheduling every SubmitOrder, CancelOrder and
\* GetBookDepth call returns; the matching loop makes at most one iteration
\* per opposing resting order; no call takes a book's lock while it holds the
\* registry's lock, so the two locks cannot deadlock.
C39_CallsTerminate ==
    /\ []C39_Safe
    /\ \A t \in Callers : (reg.frame[t].at # "idle") ~> (reg.frame[t].at = "idle")

\* an add is inside the match loop, having made one iteration for each of
\* the orders it found on the opposing side, while the other goroutine's
\* call waits for the book's lock
C39_Witness ==
    \E t \in Callers :
        /\ reg.frame[t].at = "match"
        /\ reg.frame[t].opp > 0
        /\ reg.frame[t].iters = reg.frame[t].opp
        /\ mu.writer = t
        /\ \E u \in Callers \ {t} : reg.frame[u].at = "book"

\* ------------------------------------------------------------------ C40
\* C40: in the hub, under every interleaving of Register, the Unregister
\* messages of a client's two pumps and broadcasts that overflow the
\* client's buffer, each client's Send channel is closed at most once and the
\* hub never sends on a closed Send channel: a client whose channel is
\* closed is no longer in the client set.
C40_SendClosedOnce ==
    \A c \in Clients :
        /\ reg.send[c].closes <= 1
        /\ ~reg.send[c].sentClosed
        /\ reg.send[c].closes > 0 => c \notin reg.clients

\* a client was removed for a full buffer, both its pumps have since
\* unregistered it, and a later broadcast has gone round the clients left
C40_Witness ==
    \E c \in Clients :
        /\ reg.send[c].by = "overflow"
        /\ reg.write[c] = "done"
        /\ reg.read[c] = "done"
        /\ reg.hub.at = "range"
        /\ reg.clients # {}

====
